---- MODULE Spec2Model ----
(***************************************************************************)
(* Model of the dazai HTTP service: the NLP services (generation,          *)
(* sentiment, summarization, style transfer), their lazy tokenizer/model   *)
(* acquisition, their catch-and-degrade error handling, and the routers    *)
(* that expose them.                                                       *)
(*                                                                         *)
(* Conventions.  A Python str is a sequence of one-character strings (the  *)
(* Japanese characters of the source are written by their romanised names, *)
(* one name per character).  An optional value is None or Some(v).  The result *)
(* of a call is an outcome record: Return(v) or Raise(exc, msg).  The      *)
(* pretrained tokenizer/model (the "oracle") is external: every primitive  *)
(* of it that a service calls either returns a value drawn from a small    *)
(* set or raises; which primitive raises, if any, is the input `fault`.    *)
(***************************************************************************)
EXTENDS Integers, Sequences, FiniteSets, TLC

VARIABLES
    inst,   \* the service instance last built (by a caller or for a request):
            \* its capability and whether _tokenizer / _model are loaded
    last    \* the last completed call or request, with everything it did

vars == <<inst, last>>

\* Python None and an optional value: None is the empty tuple, a present
\* value v is Some(v).
None == << >>
Some(v) == <<v>>
Get(o) == o[1]

Last(s) == s[Len(s)]

Min(a, b) == IF a < b THEN a ELSE b
Max(a, b) == IF a > b THEN a ELSE b

Return(v) == [kind |-> "return", value |-> v]
Raise(e, m) == [kind |-> "raise", exc |-> e, msg |-> m]

(***************************************************************************)
(* Python str / list primitives.                                           *)
(***************************************************************************)

\* s[:n] for a str or list s and an int n (negative n counts from the end).
PySlicePrefix(s, n) ==
    IF n >= 0 THEN SubSeq(s, 1, Min(n, Len(s)))
              ELSE SubSeq(s, 1, Max(Len(s) + n, 0))

\* s starts with pat at index i (1-based).
MatchAt(s, pat, i) ==
    /\ i + Len(pat) - 1 <= Len(s)
    /\ \A k \in 1..Len(pat) : s[i + k - 1] = pat[k]

RECURSIVE ReplaceFrom(_, _, _, _)
ReplaceFrom(s, pat, rep, i) ==
    IF i > Len(s) THEN << >>
    ELSE IF MatchAt(s, pat, i) THEN rep \o ReplaceFrom(s, pat, rep, i + Len(pat))
    ELSE <<s[i]>> \o ReplaceFrom(s, pat, rep, i + 1)

\* s.replace(pat, rep) for a non-empty pat: leftmost non-overlapping
\* occurrences, in one left-to-right pass.
PyReplace(s, pat, rep) == ReplaceFrom(s, pat, rep, 1)

\* pat occurs in s.
Contains(s, pat) == \E i \in 1..Len(s) : MatchAt(s, pat, i)

(***************************************************************************)
(* Lazy acquisition and the oracle pipeline of one service call.           *)
(*                                                                         *)
(* Every service method runs the same sequence of oracle primitives; the   *)
(* two loads are the tokenizer/model properties, which call from_pretrained*)
(* only while the cached attribute is None.  RunPipeline gives the         *)
(* primitives actually called (in order), whether one raised, and the      *)
(* cached attributes afterwards: a property caches only a load that        *)
(* returned.                                                               *)
(***************************************************************************)
LoadTokenizer == "tokenizer.from_pretrained"
LoadModel == "model.from_pretrained"
LoaderOf(resource) == IF resource = "tokenizer" THEN LoadTokenizer ELSE LoadModel

RECURSIVE UpTo(_, _)
\* the prefix of seq up to and including the first occurrence of x
UpTo(seq, x) ==
    IF seq = << >> THEN << >>
    ELSE IF Head(seq) = x THEN <<x>>
    ELSE <<Head(seq)>> \o UpTo(Tail(seq), x)

InSeq(x, seq) == \E i \in 1..Len(seq) : seq[i] = x

Effective_reloads(stages, i) == stages

\* the primitives a call would run on instance i when nothing raises
Effective(stages, i) ==
    SelectSeq(stages, LAMBDA st :
        /\ ~(st = LoadTokenizer /\ i.tokenizer)
        /\ ~(st = LoadModel /\ i.model))

RunPipeline_keeps_failed_load(stages, i, fault) ==
    LET eff    == Effective(stages, i)
        raised == InSeq(fault, eff)
        calls  == IF raised THEN UpTo(eff, fault) ELSE eff
    IN  [calls     |-> calls,
         raised    |-> raised,
         tokenizer |-> i.tokenizer \/ InSeq(LoadTokenizer, calls),
         model     |-> i.model \/ InSeq(LoadModel, calls)]

\* the primitives a call runs up to the one that raises, and the
\* attributes it leaves: a load that raised stores nothing
RunPipeline(stages, i, fault) ==
    LET eff    == Effective(stages, i)
        raised == InSeq(fault, eff)
        calls  == IF raised THEN UpTo(eff, fault) ELSE eff
    IN  [calls     |-> calls,
         raised    |-> raised,
         tokenizer |-> i.tokenizer \/ (InSeq(LoadTokenizer, calls) /\ fault # LoadTokenizer),
         model     |-> i.model \/ (InSeq(LoadModel, calls) /\ fault # LoadModel)]

NoFault == "none"

\* a call that does not touch the oracle
NoRun(i) == [calls |-> << >>, raised |-> FALSE, tokenizer |-> i.tokenizer, model |-> i.model]

\* what a service call gives: its outcome and what it did to the oracle
Result(outcome, run) == [outcome |-> outcome, run |-> run]

Faults(stages) == {NoFault} \cup {stages[k] : k \in 1..Len(stages)}

\* exceptions from_pretrained may raise
LoaderErrors == {"OSError", "ValueError"}

\* the tokenizer property read on its own: load while the attribute is
\* None (an exception of the loader passes through the bare raise), then
\* return the attribute
tokenizer_property(i, fault, exc) ==
    LET run == RunPipeline(<<LoadTokenizer>>, i, fault)
    IN  Result(IF run.raised THEN Raise(exc, LoadTokenizer) ELSE Return("_tokenizer"), run)

\* the model property read on its own
model_property(i, fault, exc) ==
    LET run == RunPipeline(<<LoadModel>>, i, fault)
    IN  Result(IF run.raised THEN Raise(exc, LoadModel) ELSE Return("_model"), run)

(***************************************************************************)
(* Text generation: NLPService.generate_text and the older                 *)
(* NLP.predictive_sentences.                                               *)
(***************************************************************************)
GenStages == <<LoadTokenizer, "tokenizer.encode", LoadModel,
               "model.generate", "tokenizer.batch_decode">>

EosMarker == <<"<", "/", "s", ">">>
UnkMarker == <<"<", "u", "n", "k", ">">>

MAX_ADDITIONAL_TOKENS == 80
DO_SAMPLE == TRUE

\* "Use settings from config if not explicitly provided"
GenParams(max_additional_tokens, do_sample) ==
    [max_additional_tokens |-> IF max_additional_tokens = None
                               THEN MAX_ADDITIONAL_TOKENS ELSE Get(max_additional_tokens),
     do_sample |-> IF do_sample = None THEN DO_SAMPLE ELSE Get(do_sample)]

\* decoded_output.replace('</s>', '').replace('<unk>', '')
CleanOutput(decoded) == PyReplace(PyReplace(decoded, EosMarker, << >>), UnkMarker, << >>)

\* the try body of generate_text / predictive_sentences: decoded is the text
\* batch_decode gives when nothing raises
GenerateBody(run, decoded) ==
    IF run.raised THEN Raise("Exception", Last(run.calls))
    ELSE Return(CleanOutput(decoded))

generate_text_reraises(i, text, fault, decoded) ==
    LET run == RunPipeline(GenStages, i, fault)
    IN  Result(GenerateBody(run, decoded), run)

\* try: ... return cleaned_output / except Exception: return text
generate_text(i, text, fault, decoded) ==
    LET run  == RunPipeline(GenStages, i, fault)
        body == GenerateBody(run, decoded)
    IN  Result(IF body.kind = "raise" THEN Return(text) ELSE body, run)

predictive_sentences_reraises(i, text, fault, decoded) ==
    LET run == RunPipeline(GenStages, i, fault)
    IN  Result(GenerateBody(run, decoded), run)

predictive_sentences(i, text, fault, decoded) ==
    LET run  == RunPipeline(GenStages, i, fault)
        body == GenerateBody(run, decoded)
    IN  Result(IF body.kind = "raise" THEN Return(text) ELSE body, run)

(***************************************************************************)
(* Sentiment analysis.  A float score is a whole number of 1/ScoreUnits,   *)
(* so 1.0 is ScoreUnits and 0.0 is 0.  A dict is the sequence of its       *)
(* (key, value) items in insertion order, which is the order Python        *)
(* iterates it in.                                                         *)
(***************************************************************************)
ScoreUnits == 6

labels == <<"negative", "neutral", "positive">>

SentStages == <<LoadTokenizer, "tokenizer.call", LoadModel, "model.call", "softmax">>

DictKeys(d) == {d[k][1] : k \in 1..Len(d)}
DictGet(d, key) == d[CHOOSE k \in 1..Len(d) : d[k][1] = key][2]
\* a dict as the mapping it denotes (dict equality ignores insertion order)
AsMapping(d) == [key \in DictKeys(d) |-> DictGet(d, key)]

\* {self.labels[i]: float(scores[0][i]) for i in range(len(self.labels))}
ScoresDict(scores) == [k \in 1..Len(labels) |-> <<labels[k], scores[k]>>]

RECURSIVE MaxByValue(_, _)
\* Python's max(items, key=lambda x: x[1]) continued from the item best:
\* a later item replaces best only when its value is strictly greater
MaxByValue(items, best) ==
    IF items = << >> THEN best
    ELSE MaxByValue(Tail(items), IF Head(items)[2] > best[2] THEN Head(items) ELSE best)

RECURSIVE MaxByValueLast(_, _)
MaxByValueLast(items, best) ==
    IF items = << >> THEN best
    ELSE MaxByValueLast(Tail(items), IF Head(items)[2] >= best[2] THEN Head(items) ELSE best)

_get_dominant_sentiment_last_wins(scores) == MaxByValueLast(Tail(scores), Head(scores))

\* max(scores.items(), key=lambda x: x[1]): a (label, score) tuple
_get_dominant_sentiment(scores) == MaxByValue(Tail(scores), Head(scores))

NeutralFallback ==
    [sentiment |-> "neutral",
     score     |-> ScoreUnits,
     details   |-> <<<<"positive", 0>>, <<"neutral", ScoreUnits>>, <<"negative", 0>>>>]

SentimentBody_scores_the_first_label(run, scores) ==
    IF run.raised THEN Raise("Exception", Last(run.calls))
    ELSE LET scores_dict == ScoresDict(scores)
             dominant    == _get_dominant_sentiment(scores_dict)
         IN  Return([sentiment |-> dominant[1], score |-> scores_dict[1][2],
                     details |-> scores_dict])

\* the try body of analyze_sentiment: scores is row 0 of the softmax
SentimentBody(run, scores) ==
    IF run.raised THEN Raise("Exception", Last(run.calls))
    ELSE LET scores_dict == ScoresDict(scores)
             dominant    == _get_dominant_sentiment(scores_dict)
         IN  Return([sentiment |-> dominant[1], score |-> dominant[2],
                     details |-> scores_dict])

analyze_sentiment_reraises(i, text, fault, scores) ==
    LET run == RunPipeline(SentStages, i, fault)
    IN  Result(SentimentBody(run, scores), run)

analyze_sentiment_positive_fallback(i, text, fault, scores) ==
    LET run  == RunPipeline(SentStages, i, fault)
        body == SentimentBody(run, scores)
    IN  Result(IF body.kind = "raise"
               THEN Return([NeutralFallback EXCEPT !.sentiment = "positive"])
               ELSE body, run)

\* try: ... return {...} / except Exception: return the neutral result
analyze_sentiment(i, text, fault, scores) ==
    LET run  == RunPipeline(SentStages, i, fault)
        body == SentimentBody(run, scores)
    IN  Result(IF body.kind = "raise" THEN Return(NeutralFallback) ELSE body, run)

EmotionKeywords ==
    [positive |-> [joy        |-> <<"yorokobi", "ureshii", "tanoshii", "shiawase", "manzoku">>,
                   excitement |-> <<"koufun", "wakuwaku", "nekkyou", "kandou", "odoroki">>,
                   gratitude  |-> <<"kansha", "arigatou", "on", "shai", "orei">>],
     negative |-> [anger   |-> <<"ikari", "ikidoori", "fuman", "iraira", "nikushimi">>,
                   sadness |-> <<"kanashimi", "kanashii", "sabishii", "yuuutsu", "ochikomu">>,
                   fear    |-> <<"kyoufu", "fuan", "shinpai", "kowai", "osore">>],
     neutral  |-> [calm          |-> <<"reisei", "heisei", "odayaka", "ochitsuki", "antei">>,
                   contemplative |-> <<"shiryo", "kousatsu", "jukkou", "naisei", "kentou">>]]

get_emotion_keywords_defaults_to_positive(sentiment) ==
    IF sentiment \in DOMAIN EmotionKeywords THEN EmotionKeywords[sentiment]
    ELSE EmotionKeywords["positive"]

\* emotion_keywords.get(sentiment, emotion_keywords["neutral"])
get_emotion_keywords(sentiment) ==
    IF sentiment \in DOMAIN EmotionKeywords THEN EmotionKeywords[sentiment]
    ELSE EmotionKeywords["neutral"]

(***************************************************************************)
(* Summarization and keyword extraction.                                   *)
(***************************************************************************)
SumStages == <<LoadTokenizer, "tokenizer.call", LoadModel,
               "model.generate", "tokenizer.decode">>

DEFAULT_SUMMARY_LENGTH == 100
ShortTextLength == 50
Ellipsis == <<".", ".", ".">>

\* the try body of summarize_text: decoded is what tokenizer.decode gives
SummarizeBody(run, decoded) ==
    IF run.raised THEN Raise("Exception", Last(run.calls)) ELSE Return(decoded)

summarize_text_no_short_circuit(i, text, max_length, fault, decoded) ==
    LET length == IF max_length = None THEN DEFAULT_SUMMARY_LENGTH ELSE Get(max_length)
        run    == RunPipeline(SumStages, i, fault)
        body   == SummarizeBody(run, decoded)
    IN  Result(IF body.kind = "raise"
               THEN Return(PySlicePrefix(text, length) \o Ellipsis)
               ELSE body, run)

summarize_text_short_includes_50(i, text, max_length, fault, decoded) ==
    IF Len(text) <= ShortTextLength THEN Result(Return(text), NoRun(i))
    ELSE summarize_text_no_short_circuit(i, text, max_length, fault, decoded)

summarize_text_ignores_max_length(i, text, max_length, fault, decoded) ==
    IF Len(text) < ShortTextLength THEN Result(Return(text), NoRun(i))
    ELSE summarize_text_no_short_circuit(i, text, None, fault, decoded)

summarize_text(i, text, max_length, fault, decoded) ==
    LET length == IF max_length = None THEN DEFAULT_SUMMARY_LENGTH ELSE Get(max_length)
    IN  IF Len(text) < ShortTextLength
        THEN \* "Text is too short to summarize meaningfully"
             Result(Return(text), NoRun(i))
        ELSE LET run  == RunPipeline(SumStages, i, fault)
                 body == SummarizeBody(run, decoded)
             IN  Result(IF body.kind = "raise"
                        THEN Return(PySlicePrefix(text, length) \o Ellipsis)
                        ELSE body, run)

Whitespace == {" ", "\t", "\n"}

RECURSIVE LStrip(_)
LStrip(s) == IF s # << >> /\ Head(s) \in Whitespace THEN LStrip(Tail(s)) ELSE s

RECURSIVE RStrip(_)
RStrip(s) ==
    IF s # << >> /\ Last(s) \in Whitespace THEN RStrip(SubSeq(s, 1, Len(s) - 1)) ELSE s

\* kw.strip()
PyStrip(s) == RStrip(LStrip(s))

RECURSIVE SplitFrom(_, _, _)
\* the fields of s from index i on, cur being the field read so far
SplitFrom(s, i, cur) ==
    IF i > Len(s) THEN <<cur>>
    ELSE IF s[i] = "," THEN <<cur>> \o SplitFrom(s, i + 1, << >>)
    ELSE SplitFrom(s, i + 1, Append(cur, s[i]))

\* keywords_text.split(","): one more field than there are commas
PySplitComma(s) == SplitFrom(s, 1, << >>)

\* the try body of extract_keywords
KeywordsBody(run, keywords_text, num_keywords) ==
    IF run.raised THEN Raise("Exception", Last(run.calls))
    ELSE LET fields   == PySplitComma(keywords_text)
             keywords == [k \in 1..Len(fields) |-> PyStrip(fields[k])]
         IN  Return(PySlicePrefix(keywords, num_keywords))

extract_keywords_reraises(i, text, num_keywords, fault, keywords_text) ==
    LET run == RunPipeline(SumStages, i, fault)
    IN  Result(KeywordsBody(run, keywords_text, num_keywords), run)

\* try: ... return keywords[:num_keywords] / except Exception: return []
extract_keywords(i, text, num_keywords, fault, keywords_text) ==
    LET run  == RunPipeline(SumStages, i, fault)
        body == KeywordsBody(run, keywords_text, num_keywords)
    IN  Result(IF body.kind = "raise" THEN Return(<< >>) ELSE body, run)

(***************************************************************************)
(* Style transfer.  A regular expression of transformation_rules is a      *)
(* sequence of elements that each match one character: a literal, or a     *)
(* capturing group around a character class ([...] or [^...]).  A          *)
(* replacement template is a sequence of literals and group references.    *)
(***************************************************************************)
StyleStages == <<LoadTokenizer, "tokenizer.call", LoadModel,
                 "model.generate", "tokenizer.decode">>

\* self.styles.keys(), in insertion order
StyleNames == <<"meiji", "taisho", "showa", "formal", "casual", "academic", "poetic">>
StyleSet == {StyleNames[k] : k \in 1..Len(StyleNames)}

Lit(c) == [t |-> "lit", c |-> c]
Lits(cs) == [k \in 1..Len(cs) |-> Lit(cs[k])]
GroupIn(set) == [t |-> "in", set |-> set]
GroupNotIn(set) == [t |-> "notin", set |-> set]
Ref(k) == [t |-> "ref", k |-> k]
Rule(pat, rep) == [pat |-> pat, rep |-> rep]

Punct == GroupIn({"maru", "ten"})      \* ([。、])
NotMa == GroupNotIn({"ma"})            \* ([^ま])

transformation_rules ==
    [formal |-> <<
        Rule(Lits(<<"da">>) \o <<Punct>>, Lits(<<"de", "su">>) \o <<Ref(1)>>),
        Rule(<<NotMa>> \o Lits(<<"su">>) \o <<Punct>>,
             <<Ref(1)>> \o Lits(<<"shi", "ma", "su">>) \o <<Ref(2)>>),
        Rule(Lits(<<"da", "yo">>), Lits(<<"de", "su", "yo">>)),
        Rule(Lits(<<"da", "ne">>), Lits(<<"de", "su", "ne">>)),
        Rule(<<NotMa>> \o Lits(<<"se", "n">>),
             <<Ref(1)>> \o Lits(<<"shi", "ma", "se", "n">>)),
        Rule(Lits(<<"ore">>), Lits(<<"watashi">>)),
        Rule(Lits(<<"boku">>), Lits(<<"watashi">>)),
        Rule(<<NotMa>> \o Lits(<<"shi", "ta">>) \o <<Punct>>,
             <<Ref(1)>> \o Lits(<<"shi", "ma", "shi", "ta">>) \o <<Ref(2)>>) >>,
     casual |-> <<
        Rule(Lits(<<"de", "su">>) \o <<Punct>>, Lits(<<"da">>) \o <<Ref(1)>>),
        Rule(Lits(<<"ma", "su">>) \o <<Punct>>, Lits(<<"ru">>) \o <<Ref(1)>>),
        Rule(Lits(<<"de", "su", "yo">>), Lits(<<"da", "yo">>)),
        Rule(Lits(<<"de", "su", "ne">>), Lits(<<"da", "ne">>)),
        Rule(Lits(<<"shi", "ma", "se", "n">>), Lits(<<"shi", "na", "i">>)),
        Rule(Lits(<<"shi", "ma", "shi", "ta">>), Lits(<<"shi", "ta">>)) >>,
     meiji |-> <<
        Rule(Lits(<<"de", "su">>), Lits(<<"de", "a", "ri", "ma", "su">>)),
        Rule(Lits(<<"ma", "su">>), Lits(<<"ma", "su", "ru">>)),
        Rule(Lits(<<"ma", "se", "n">>), Lits(<<"ma", "se", "nu">>)),
        Rule(Lits(<<"da">>) \o <<Punct>>, Lits(<<"de", "a", "ru">>) \o <<Ref(1)>>),
        Rule(Lits(<<"watashi", "ha">>), Lits(<<"ware", "hai", "ha">>)),
        Rule(Lits(<<"kare", "ha">>), Lits(<<"kare", "yatsu", "ha">>)),
        Rule(Lits(<<"so", "re", "ha">>), Lits(<<"sono", "ha">>)),
        Rule(Lits(<<"ko", "re", "ha">>), Lits(<<"kono", "ha">>)) >>]

ElementMatches(el, c) ==
    CASE el.t = "lit"   -> c = el.c
      [] el.t = "in"    -> c \in el.set
      [] el.t = "notin" -> c \notin el.set

\* the pattern matches s at index i
PatternMatchesAt(pat, s, i) ==
    /\ i + Len(pat) - 1 <= Len(s)
    /\ \A k \in 1..Len(pat) : ElementMatches(pat[k], s[i + k - 1])

\* indexes (within the pattern) of its capturing groups, in order
GroupIndexes(pat) ==
    SelectSeq([k \in 1..Len(pat) |-> k], LAMBDA k : pat[k].t # "lit")

RECURSIVE Expand(_, _)
\* the template with each \k replaced by what group k captured
Expand(rep, captures) ==
    IF rep = << >> THEN << >>
    ELSE (IF Head(rep).t = "ref" THEN <<captures[Head(rep).k]>> ELSE <<Head(rep).c>>)
         \o Expand(Tail(rep), captures)

RECURSIVE SubFrom(_, _, _, _)
SubFrom(pat, rep, s, i) ==
    IF i > Len(s) THEN << >>
    ELSE IF PatternMatchesAt(pat, s, i)
         THEN LET groups   == GroupIndexes(pat)
                  captures == [g \in 1..Len(groups) |-> s[i + groups[g] - 1]]
              IN  Expand(rep, captures) \o SubFrom(pat, rep, s, i + Len(pat))
         ELSE <<s[i]>> \o SubFrom(pat, rep, s, i + 1)

\* re.sub(pattern, replacement, s): the template is compiled first, and a
\* reference to a group the pattern does not have is an re.error
ReSub(pat, rep, s) ==
    IF \E k \in 1..Len(rep) : rep[k].t = "ref" /\ rep[k].k > Len(GroupIndexes(pat))
    THEN Raise("re.error", "invalid group reference")
    ELSE Return(SubFrom(pat, rep, s, 1))

RECURSIVE ApplyRules_last_rule_first(_, _)
ApplyRules_last_rule_first(rules, text) ==
    IF rules = << >> THEN Return(text)
    ELSE LET r == ReSub(Last(rules).pat, Last(rules).rep, text)
         IN  IF r.kind = "raise" THEN r
             ELSE ApplyRules_last_rule_first(SubSeq(rules, 1, Len(rules) - 1), r.value)

RECURSIVE ApplyRules(_, _)
\* for pattern, replacement in patterns: transformed_text = re.sub(...)
ApplyRules(rules, text) ==
    IF rules = << >> THEN Return(text)
    ELSE LET r == ReSub(Head(rules).pat, Head(rules).rep, text)
         IN  IF r.kind = "raise" THEN r ELSE ApplyRules(Tail(rules), r.value)

_transform_with_rules(text, target_style) ==
    IF target_style \notin DOMAIN transformation_rules
    THEN \* "No transformation rules available for style"
         Return(text)
    ELSE ApplyRules(transformation_rules[target_style], text)

\* the model-based transformation: decoded is what tokenizer.decode gives
_transform_with_model(run, decoded) ==
    IF run.raised THEN Raise("Exception", Last(run.calls)) ELSE Return(decoded)

RECURSIVE JoinComma(_)
\* ", ".join(names), as the sequence of its parts
JoinComma(names) ==
    IF Len(names) <= 1 THEN names
    ELSE <<Head(names), ", ">> \o JoinComma(Tail(names))

\* f"Unsupported style: {target_style}. Available styles: {available_styles}"
UnsupportedStyleMessage(target_style) ==
    <<"Unsupported style: ", target_style, ". Available styles: ">> \o JoinComma(StyleNames)

StyleResult(outcome, run, fallback) ==
    [outcome |-> outcome, run |-> run, fallback |-> fallback]

transform_text_no_fallback(i, text, target_style, fault, decoded) ==
    IF target_style \notin StyleSet
    THEN StyleResult(Raise("ValueError", UnsupportedStyleMessage(target_style)), NoRun(i), None)
    ELSE LET run == RunPipeline(StyleStages, i, fault)
         IN  StyleResult(_transform_with_model(run, decoded), run, None)

transform_text_validates_late(i, text, target_style, fault, decoded) ==
    LET run   == RunPipeline(StyleStages, i, fault)
        model == _transform_with_model(run, decoded)
    IN  IF target_style \notin StyleSet
        THEN StyleResult(Raise("ValueError", UnsupportedStyleMessage(target_style)), run, None)
        ELSE IF model.kind = "raise"
        THEN StyleResult(_transform_with_rules(text, target_style), run,
                         Some(<<text, target_style>>))
        ELSE StyleResult(model, run, None)

transform_text(i, text, target_style, fault, decoded) ==
    IF target_style \notin StyleSet
    THEN StyleResult(Raise("ValueError", UnsupportedStyleMessage(target_style)), NoRun(i), None)
    ELSE LET run   == RunPipeline(StyleStages, i, fault)
             model == _transform_with_model(run, decoded)
         IN  IF model.kind = "raise"
             THEN \* "Falling back to rule-based transformation."
                  StyleResult(_transform_with_rules(text, target_style), run,
                              Some(<<text, target_style>>))
             ELSE StyleResult(model, run, None)

(***************************************************************************)
(* The placeholder phrases: ClicheService.  A phrase of the list is        *)
(* written by a name ("cliche01" is the first phrase of the source list);  *)
(* the empty str is "".  random.choice is external: the index it draws is  *)
(* the input `draw`.                                                       *)
(***************************************************************************)

\* self.cliches as __init__ sets it
cliches ==
    <<"cliche01", "cliche02", "cliche03", "cliche04", "cliche05", "cliche06",
      "cliche07", "cliche08", "cliche09", "cliche10", "cliche11", "cliche12",
      "cliche13", "cliche14">>

ClicheInstance == [cap |-> "cliche", cliches |-> cliches]

\* [c for c in seq if c not in exclude]
RECURSIVE NotExcluded(_, _)
NotExcluded(seq, exclude) ==
    IF seq = << >> THEN << >>
    ELSE IF Head(seq) \in exclude THEN NotExcluded(Tail(seq), exclude)
    ELSE <<Head(seq)>> \o NotExcluded(Tail(seq), exclude)

\* random.choice(seq): IndexError on an empty sequence, else the element
\* at the index drawn below len(seq)
random_choice(seq, draw) ==
    IF seq = << >> THEN Raise("IndexError", "Cannot choose from an empty sequence")
    ELSE Return(seq[(draw % Len(seq)) + 1])

\* `if exclude:` -- None and the empty list are both false
Truthy(exclude) == exclude # None /\ Get(exclude) # {}

\* the list random.choice draws from
available_cliches(i, exclude) ==
    IF Truthy(exclude)
    THEN LET kept == NotExcluded(i.cliches, Get(exclude))
         IN  IF kept = << >> THEN i.cliches ELSE kept
    ELSE i.cliches

get_random_cliche_without_fallback(i, exclude, draw) ==
    [outcome |-> random_choice(
                     IF Truthy(exclude) THEN NotExcluded(i.cliches, Get(exclude))
                     ELSE i.cliches, draw),
     cliches |-> i.cliches]

get_random_cliche_ignores_exclude(i, exclude, draw) ==
    [outcome |-> random_choice(i.cliches, draw), cliches |-> i.cliches]

\* ClicheService.get_random_cliche(exclude): the phrase returned and
\* self.cliches as the call leaves it
get_random_cliche(i, exclude, draw) ==
    [outcome |-> random_choice(available_cliches(i, exclude), draw),
     cliches |-> i.cliches]

(***************************************************************************)
(* The routers.  A request body gives each field as None (absent) or       *)
(* Some(value); a response is its status code and JSON body.  Every        *)
(* handler gets a service built for the request by its Depends factory.    *)
(***************************************************************************)
NewInstance(cap) == [cap |-> cap, tokenizer |-> FALSE, model |-> FALSE]

Response(status, body) == [status |-> status, body |-> body]

\* what FastAPI answers when the body does not fit the request model
ValidationFailure == Response(422, [detail |-> "Validation error"])

\* a handler's answer, and the service call it made (None when it made none)
Handled(response, service) == [response |-> response, service |-> service]

MAX_LENGTH_GE == 10
MAX_LENGTH_LE == 500

\* StyleTransferRequest: text: str, target_style: str
ValidStyleTransferRequest(body) == body.text # None /\ body.target_style # None

ValidSummarizationRequest_unbounded_above(body) ==
    /\ body.text # None
    /\ body.max_length # None => Get(body.max_length) >= MAX_LENGTH_GE

\* SummarizationRequest: text: str, max_length: int = Field(default=100, ge=10, le=500)
ValidSummarizationRequest(body) ==
    /\ body.text # None
    /\ body.max_length # None =>
           Get(body.max_length) >= MAX_LENGTH_GE /\ Get(body.max_length) <= MAX_LENGTH_LE

RequestMaxLength(body) ==
    IF body.max_length = None THEN DEFAULT_SUMMARY_LENGTH ELSE Get(body.max_length)

\* SentimentAnalysisRequest: text: str
ValidSentimentRequest(body) == body.text # None

\* the router endpoints whose handler wraps one service call
RouterOps ==
    {"POST /sentiment/", "POST /sentiment/emotion_keywords", "POST /summarization/",
     "POST /summarization/keywords", "POST /style_transfer/"}

Answer_leaks_message(endpoint, o) ==
    IF o.kind = "raise" THEN Response(500, [detail |-> o.msg])
    ELSE Response(200, o.value)

\* the try/except of a router handler around its service call: what the
\* endpoint answers when the call had outcome o
Answer(endpoint, o) ==
    CASE endpoint = "POST /style_transfer/" ->
             IF o.kind = "return" THEN Response(200, [transformed_text |-> o.value])
             ELSE IF o.exc = "ValueError" THEN Response(400, [detail |-> o.msg])
             ELSE Response(500, [detail |->
                      "An unexpected error occurred during style transfer"])
      [] endpoint = "POST /summarization/" ->
             IF o.kind = "return" THEN Response(200, [summary |-> o.value])
             ELSE IF o.exc = "ValueError" THEN Response(400, [detail |-> o.msg])
             ELSE Response(500, [detail |->
                      "An unexpected error occurred during summarization"])
      [] endpoint = "POST /summarization/keywords" ->
             IF o.kind = "return" THEN Response(200, o.value)
             ELSE Response(500, [detail |->
                      "An unexpected error occurred during keyword extraction"])
      [] endpoint = "POST /sentiment/" ->
             IF o.kind = "return" THEN Response(200, o.value)
             ELSE Response(500, [detail |->
                      "An unexpected error occurred during sentiment analysis"])
      [] endpoint = "POST /sentiment/emotion_keywords" ->
             IF o.kind = "return"
             THEN Response(200, get_emotion_keywords(o.value.sentiment))
             ELSE Response(500, [detail |->
                      "An unexpected error occurred while retrieving emotion keywords"])

\* POST /style_transfer/
transfer_style(body, fault, decoded) ==
    IF ~ValidStyleTransferRequest(body) THEN Handled(ValidationFailure, None)
    ELSE LET r == transform_text(NewInstance("style_transfer"), Get(body.text),
                                 Get(body.target_style), fault, decoded)
         IN  Handled(Answer("POST /style_transfer/", r.outcome), Some(r))

\* POST /summarization/
summarize_text_endpoint(body, fault, decoded) ==
    IF ~ValidSummarizationRequest(body) THEN Handled(ValidationFailure, None)
    ELSE LET r == summarize_text(NewInstance("summarization"), Get(body.text),
                                 Some(RequestMaxLength(body)), fault, decoded)
         IN  Handled(Answer("POST /summarization/", r.outcome), Some(r))

KEYWORDS_PER_REQUEST == 5
DEFAULT_NUM_KEYWORDS == 5

\* POST /summarization/keywords
extract_keywords_endpoint(body, fault, keywords_text) ==
    IF ~ValidSummarizationRequest(body) THEN Handled(ValidationFailure, None)
    ELSE LET r == extract_keywords(NewInstance("summarization"), Get(body.text),
                                   KEYWORDS_PER_REQUEST, fault, keywords_text)
         IN  Handled(Answer("POST /summarization/keywords", r.outcome), Some(r))

\* POST /sentiment/
analyze_sentiment_endpoint(body, fault, scores) ==
    IF ~ValidSentimentRequest(body) THEN Handled(ValidationFailure, None)
    ELSE LET r == analyze_sentiment(NewInstance("sentiment"), Get(body.text), fault, scores)
         IN  Handled(Answer("POST /sentiment/", r.outcome), Some(r))

\* POST /sentiment/emotion_keywords
get_emotion_keywords_endpoint(body, fault, scores) ==
    IF ~ValidSentimentRequest(body) THEN Handled(ValidationFailure, None)
    ELSE LET r == analyze_sentiment(NewInstance("sentiment"), Get(body.text), fault, scores)
         IN  Handled(Answer("POST /sentiment/emotion_keywords", r.outcome), Some(r))

(***************************************************************************)
(* The task queue: TaskService and routers/tasks.py, and the older Task    *)
(* and handler of app/main.py.  The Cloud Tasks client is external: its    *)
(* construction raises or not (client_fault), and its create_task returns  *)
(* ("ok") or raises (the input `enqueue`).  tasks_enabled is the module    *)
(* global config.py sets at import.  A URL is the sequence of its parts:   *)
(* scheme, "://", host, path.                                              *)
(***************************************************************************)

\* pydantic's HttpUrl: an http or https scheme, "://" and a host
HttpUrl(url) ==
    /\ Len(url) >= 3
    /\ url[1] \in {"http", "https"}
    /\ url[2] = "://"
    /\ url[3] # ""

\* SentenceMaterial: text: str, response_url: HttpUrl
ValidSentenceMaterial(body) ==
    /\ body.text # None
    /\ body.response_url # None
    /\ HttpUrl(Get(body.response_url))

\* text: str = Form(...), response_url: str = Form(...)
ValidTaskForm(form) == form.text # None /\ form.response_url # None

\* an exception no handler catches, as the outermost boundary answers it
Unhandled == Response(500, [detail |-> "An unexpected error occurred"])

\* TaskService(): no client while tasks are disabled, else a
\* CloudTasksClient, whose construction may raise
TaskService(tasks_enabled, client_fault) ==
    IF ~tasks_enabled THEN Return([client |-> None])
    ELSE IF client_fault THEN Raise("DefaultCredentialsError", "CloudTasksClient")
    ELSE Return([client |-> Some("CloudTasksClient")])

\* what the client's create_task does with the task built for the payload
Enqueue(text, response_url, enqueue) ==
    IF enqueue = "ok"
    THEN [outcome |-> Return("task"),
          calls   |-> <<"client.queue_path", "client.create_task">>,
          queued  |-> <<[text |-> text, response_url |-> response_url]>>]
    ELSE [outcome |-> Raise(enqueue, "client.create_task"),
          calls   |-> <<"client.queue_path", "client.create_task">>,
          queued  |-> << >>]

NotEnqueued(outcome) == [outcome |-> outcome, calls |-> << >>, queued |-> << >>]

\* TaskService.create_task(text, response_url)
create_task(service, tasks_enabled, text, response_url, enqueue) ==
    IF ~tasks_enabled \/ service.client = None
    THEN NotEnqueued(Raise("ValueError",
             "Cannot create task: Tasks are disabled due to invalid configuration"))
    ELSE Enqueue(text, response_url, enqueue)

\* Task.create_task(text, response_url) of app/task.py
Task_create_task(config_valid, text, response_url, enqueue) ==
    IF ~config_valid
    THEN NotEnqueued(Raise("ValueError", "Cannot create task: Invalid configuration"))
    ELSE Enqueue(text, response_url, enqueue)

\* a task handler's answer with the calls it made and what it queued
TaskHandled(response, r) ==
    [response |-> response, calls |-> r.calls, queued |-> r.queued,
     created |-> r.outcome.kind = "return"]

NoTask == NotEnqueued(Raise("None", "create_task was not called"))

\* the handler's try block of routers/tasks.py, given what create_task did
TaskAnswer(r, draw) ==
    IF r.outcome.kind = "return"
    THEN LET c == get_random_cliche(ClicheInstance, None, draw).outcome
         IN  IF c.kind = "return"
             THEN TaskHandled(Response(200, [text |-> c.value]),
                              [r EXCEPT !.calls = @ \o <<"get_random_cliche">>])
             ELSE TaskHandled(Response(500, [detail |-> "Failed to create task"]), r)
    ELSE IF r.outcome.exc = "ValueError"
    THEN TaskHandled(Response(503, [detail |-> r.outcome.msg]), r)
    ELSE TaskHandled(Response(500, [detail |-> "Failed to create task"]), r)

create_predictive_sentences_task_always_acknowledges(form, tasks_enabled, client_fault, enqueue, draw) ==
    IF ~ValidTaskForm(form) THEN TaskHandled(ValidationFailure, NoTask)
    ELSE LET c == get_random_cliche(ClicheInstance, None, draw).outcome
             r == IF tasks_enabled /\ ~client_fault
                  THEN Enqueue(Get(form.text), Get(form.response_url), enqueue)
                  ELSE NoTask
         IN  [TaskHandled(Response(200, [text |-> c.value]), r) EXCEPT
                 !.calls = @ \o <<"get_random_cliche">>]

\* POST /predictive_sentences_task/ of routers/tasks.py: the dependencies
\* are built first, then the form is validated, then the handler runs
create_predictive_sentences_task(form, tasks_enabled, client_fault, enqueue, draw) ==
    LET service == TaskService(tasks_enabled, client_fault)
    IN  IF service.kind = "raise" THEN TaskHandled(Unhandled, NoTask)
        ELSE IF ~ValidTaskForm(form) THEN TaskHandled(ValidationFailure, NoTask)
        ELSE IF ~tasks_enabled
        THEN TaskHandled(Response(503, [detail |-> "Task service is not available"]),
                         NoTask)
        ELSE TaskAnswer(create_task(service.value, tasks_enabled, Get(form.text),
                                    Get(form.response_url), enqueue), draw)

\* cliche.cliche() of the older app: a phrase of the fixed list
cliche(draw) == random_choice(cliches, draw)

\* POST /predictive_sentences_task/ of app/main.py
predictive_sentences_task(form, config_valid, enqueue, draw) ==
    IF ~ValidTaskForm(form) THEN TaskHandled(ValidationFailure, NoTask)
    ELSE LET r == Task_create_task(config_valid, Get(form.text),
                                   Get(form.response_url), enqueue)
         IN  IF r.outcome.kind = "return" /\ cliche(draw).kind = "return"
             THEN TaskHandled(Response(200, [text |-> cliche(draw).value]),
                              [r EXCEPT !.calls = @ \o <<"cliche">>])
             ELSE TaskHandled(Response(500, [detail |-> "Failed to create task"]), r)

(***************************************************************************)
(* Generate and deliver: POST /predictive_sentences/ of                    *)
(* routers/generation.py and of app/main.py.  The handler blocks twice, in *)
(* the generator and in requests.post, so a request in flight is a record  *)
(* with the position it has reached:                                       *)
(*   Accepted        the body was validated, the handler has started       *)
(*   Processing      the text is generated and the payload prepared        *)
(*   Delivered       requests.post returned and raise_for_status passed    *)
(*   DeliveryFailed  requests.post or raise_for_status raised a            *)
(*                   RequestException                                      *)
(*   Errored         another exception was caught                          *)
(*   Rejected        the body did not fit SentenceMaterial                 *)
(* requests.post is external: it returns a response with a status code or  *)
(* raises (the input `post`).                                              *)
(***************************************************************************)

\* requests.RequestException and the subclasses requests raises
RequestExceptions == {"RequestException", "ConnectionError", "Timeout", "HTTPError"}

\* Response.raise_for_status(): HTTPError for a 4xx or 5xx status only
raise_for_status(status_code) ==
    IF 400 <= status_code /\ status_code < 600
    THEN Raise("HTTPError", "raise_for_status")
    ELSE Return(None)

\* json.dumps({"text": generated_text, "response_type": "in_channel"})
Payload(generated_text) == [text |-> generated_text, response_type |-> "in_channel"]

\* the request as the handler receives it
SentenceRequest(app, body) ==
    [app |-> app, body |-> body, calls |-> << >>, generated |-> None,
     oracle |-> None, posted |-> << >>, post |-> None,
     state |-> IF ValidSentenceMaterial(body) THEN "Accepted" ELSE "Rejected",
     response |-> IF ValidSentenceMaterial(body) THEN None ELSE Some(ValidationFailure)]

\* generated_text = nlp_service.generate_text(text=...), r what the call did
AfterGeneration(req, r) ==
    IF r.outcome.kind = "return"
    THEN [req EXCEPT !.state = "Processing",
                     !.calls = @ \o <<"generate_text">>,
                     !.oracle = Some(r.run),
                     !.generated = Some(r.outcome.value)]
    ELSE [req EXCEPT !.state = "Errored",
                     !.calls = @ \o <<"generate_text">>,
                     !.oracle = Some(r.run),
                     !.response = Some(Response(500, [detail |->
                         "An unexpected error occurred during text generation"]))]

\* the except clauses of the handler
SendFailure(exc) ==
    IF exc \in RequestExceptions
    THEN [state |-> "DeliveryFailed",
          response |-> Response(502, [detail |->
                           "Failed to send response to the provided URL"])]
    ELSE [state |-> "Errored",
          response |-> Response(500, [detail |->
                           "An unexpected error occurred during text generation"])]

\* the request with requests.post called once more
Posted(req, post) ==
    [req EXCEPT !.calls = @ \o <<"requests.post">>,
                !.posted = @ \o <<[url |-> Get(req.body.response_url),
                                   data |-> Payload(Get(req.generated))]>>,
                !.post = Some(post)]

AfterPost_retries(req, post) ==
    LET checked == IF post.kind = "raise" THEN post ELSE raise_for_status(post.value)
    IN  IF checked.kind = "return"
        THEN [Posted(req, post) EXCEPT
                 !.state = "Delivered",
                 !.response = Some(Response(202,
                     [status |-> "Text generated and sent successfully"]))]
        ELSE IF Len(req.posted) = 0 THEN Posted(req, post)
        ELSE [Posted(req, post) EXCEPT
                 !.state = SendFailure(checked.exc).state,
                 !.response = Some(SendFailure(checked.exc).response)]

\* response = requests.post(...); response.raise_for_status(); return
AfterPost(req, post) ==
    LET checked == IF post.kind = "raise" THEN post ELSE raise_for_status(post.value)
    IN  IF checked.kind = "return"
        THEN [Posted(req, post) EXCEPT
                 !.state = "Delivered",
                 !.response = Some(Response(202,
                     [status |-> "Text generated and sent successfully"]))]
        ELSE [Posted(req, post) EXCEPT
                 !.state = SendFailure(checked.exc).state,
                 !.response = Some(SendFailure(checked.exc).response)]

InFlight(req) == req.state \in {"Accepted", "Processing"}

(***************************************************************************)
(* Inputs.                                                                 *)
(***************************************************************************)
MaxPieces == 3
MaxPad == 1
MaxItems == 6
MaxPhrases == 2

Capabilities == {"nlp", "nlp_legacy", "sentiment", "summarization", "style_transfer"}

\* input texts of the generator; some hold the markers the cleaning removes
GenTexts == {<< >>, <<"a">>, <<"a", "b">> \o EosMarker, UnkMarker \o <<"a">>}

\* what batch_decode may give: up to MaxPieces pieces, markers and halves
\* of markers among them
Pieces == {<<"a">>, EosMarker, UnkMarker, <<"<", "/">>, <<"s", ">">>}

RECURSIVE Concats(_, _)
\* the concatenations of at most n members of pieces
Concats(pieces, n) ==
    IF n = 0 THEN {<< >>}
    ELSE LET shorter == Concats(pieces, n - 1)
         IN  shorter \cup {s \o p : s \in shorter, p \in pieces}

DecodedOutputs == Concats(Pieces, MaxPieces)

OptTokens == {None, Some(0)}
OptSample == {None, Some(FALSE)}

\* the score rows a softmax over three classes may give
Distributions ==
    {d \in [1..3 -> 0..ScoreUnits] : d[1] + d[2] + d[3] = ScoreUnits}

\* the orders a caller may build a scores dict in
LabelOrders ==
    {o \in [1..3 -> 1..3] : \A a, b \in 1..3 : a # b => o[a] # o[b]}

SentTexts == {<< >>, <<"a">>, <<"a", " ", "b">>}

\* a text of n characters, no two neighbours alike
SampleText(n, shift) == [k \in 1..n |-> <<"a", "b", "c">>[((k + shift) % 3) + 1]]

SumLengths ==
    (0..MaxPad)
    \cup ((ShortTextLength - MaxPad)..(ShortTextLength + MaxPad))
    \cup {DEFAULT_SUMMARY_LENGTH + MaxPad}

SumTexts == {SampleText(n, shift) : n \in SumLengths, shift \in 0..1}

\* max_length as a caller of the service may give it
OptMaxLengths ==
    {None, Some(0), Some(1), Some(MAX_LENGTH_GE), Some(ShortTextLength),
     Some(DEFAULT_SUMMARY_LENGTH), Some(MAX_LENGTH_LE)}

\* max_length as an HTTP client may give it
BodyMaxLengths ==
    {None, Some(MAX_LENGTH_GE - 1), Some(MAX_LENGTH_GE), Some(ShortTextLength),
     Some(MAX_LENGTH_LE), Some(MAX_LENGTH_LE + 1)}

Summaries == {<< >>, <<"s", "u", "m">>}

\* the items an oracle may put between commas: plain, padded, blank
Items == {<<"a">>, <<" ", "b", "c", "\t">>, <<" ">>}

RECURSIVE ItemLists(_)
ItemLists(n) ==
    IF n = 0 THEN {<< >>}
    ELSE LET shorter == ItemLists(n - 1)
         IN  shorter \cup {Append(l, it) : l \in shorter, it \in Items}

RECURSIVE Join(_)
\* the items with a comma between neighbours
Join(items) ==
    IF items = << >> THEN << >>
    ELSE IF Len(items) = 1 THEN Head(items)
    ELSE Head(items) \o <<",">> \o Join(Tail(items))

KeywordItemLists == ItemLists(MaxItems)

\* num_keywords as a caller may give it; None takes the default
OptNumKeywords == {None, Some(0), Some(3), Some(7)}

StylePhrases ==
    {<<"de", "su", "maru">>, <<"da", "ten">>, <<"ma", "su", "maru">>,
     <<"watashi", "ha">>, <<"ore">>}

StyleTexts == Concats(StylePhrases, MaxPhrases)

StyleInputs == StyleSet \cup {"unknown", "Meiji", ""}

Transformed == {<<"t">>}

Opt(S) == {None} \cup {Some(x) : x \in S}

MaxExclude == 2

\* what a caller may put in exclude: phrases of the list and a str that is
\* not one of them
ExcludePool == {cliches[k] : k \in 1..Len(cliches)} \cup {"other"}

\* exclude lists of at most MaxExclude entries, and those that leave out at
\* most MaxExclude entries of the pool (the whole pool among them)
ExcludeSets ==
    {S \in SUBSET ExcludePool :
        Cardinality(S) <= MaxExclude \/ Cardinality(ExcludePool \ S) <= MaxExclude}

\* the index random.choice may draw
Draws == 0..(Len(cliches) - 1)

\* callback addresses a client may send: a well-formed one, free text, and
\* one with a scheme HttpUrl does not take
Urls ==
    {<<"https", "://", "example.com", "/webhook">>, <<"not-a-url">>,
     <<"ftp", "://", "example.com", "/x">>}

DirectTexts == {<< >>, <<"a">>}
FormTexts == {<<"a">>}

\* what the Cloud Tasks client's create_task may do
EnqueueOutcomes == {"ok", "GoogleAPIError", "Exception"}

\* what requests.post may do: raise, or return a response (redirects that
\* name a Location are followed inside requests.post; a 300 or 304 is not)
StatusCodes == {200, 201, 204, 300, 304, 400, 404, 500, 503}
PostOutcomes ==
    {Raise("ConnectionError", "requests.post"), Raise("Timeout", "requests.post")}
    \cup {Return(code) : code \in StatusCodes}

\* what the generator's decode may give on the direct path
DirectDecoded == {<<"a", "b">>, <<"a">> \o EosMarker}

(***************************************************************************)
(* The state machine.                                                      *)
(***************************************************************************)
Init ==
    /\ inst = NewInstance("none")
    /\ last = [op |-> "init"]

\* __init__ of a service: both resources unloaded
Construct ==
    /\ last.op \in {"init", "construct", "taken"}
    /\ \E cap \in Capabilities :
        /\ inst' = NewInstance(cap)
        /\ last' = [op |-> "construct", cap |-> cap]

\* A call starts once the caller has taken the previous result.
Ready == last.op \in {"construct", "taken"}

\* the caller takes the result of the last call; the instance lives on.
\* A generate-and-deliver request is not taken before its handler answers.
TakeResult ==
    /\ last.op \notin {"init", "construct", "taken"}
    /\ last.op = "POST /predictive_sentences/" => ~InFlight(last.req)
    /\ last' = [op |-> "taken"]
    /\ UNCHANGED inst

AfterRun(run) == [inst EXCEPT !.tokenizer = run.tokenizer, !.model = run.model]

\* the oracle's answer matters only when no primitive is to raise
Answers(fault, S) == IF fault = NoFault THEN S ELSE {CHOOSE x \in S : TRUE}

\* nlp_service.generate_text(text, max_additional_tokens, do_sample)
GenerateText ==
    /\ Ready
    /\ inst.cap = "nlp"
    /\ \E text \in GenTexts, mat \in OptTokens, ds \in OptSample, fault \in Faults(GenStages) :
        \E decoded \in Answers(fault, DecodedOutputs) :
            LET r == generate_text(inst, text, fault, decoded)
            IN  /\ inst' = AfterRun(r.run)
                /\ last' = [op |-> "generate_text", text |-> text,
                            params |-> GenParams(mat, ds), fault |-> fault,
                            decoded |-> decoded, result |-> r]

\* NLP().predictive_sentences(text) as app/main.py calls it
PredictiveSentences ==
    /\ Ready
    /\ inst.cap = "nlp_legacy"
    /\ \E text \in GenTexts, fault \in Faults(GenStages) :
        \E decoded \in Answers(fault, DecodedOutputs) :
            LET r == predictive_sentences(inst, text, fault, decoded)
            IN  /\ inst' = AfterRun(r.run)
                /\ last' = [op |-> "predictive_sentences", text |-> text,
                            fault |-> fault, decoded |-> decoded, result |-> r]

\* sentiment_service.analyze_sentiment(text)
AnalyzeSentiment ==
    /\ Ready
    /\ inst.cap = "sentiment"
    /\ \E text \in SentTexts, fault \in Faults(SentStages) :
        \E scores \in Answers(fault, Distributions) :
            LET r == analyze_sentiment(inst, text, fault, scores)
            IN  /\ inst' = AfterRun(r.run)
                /\ last' = [op |-> "analyze_sentiment", text |-> text,
                            fault |-> fault, scores |-> scores, result |-> r]

\* sentiment_service.get_emotion_keywords(sentiment), with a label of the
\* service or any other str
GetEmotionKeywords ==
    /\ Ready
    /\ inst.cap = "sentiment"
    /\ \E sentiment \in {"positive", "negative", "neutral", "mixed", "Positive", ""} :
        /\ last' = [op |-> "get_emotion_keywords", sentiment |-> sentiment,
                    result |-> get_emotion_keywords(sentiment)]
        /\ UNCHANGED inst

\* sentiment_service._get_dominant_sentiment(scores), the scores dict
\* built by the caller in an order of its choice
GetDominantSentiment ==
    /\ Ready
    /\ inst.cap = "sentiment"
    /\ \E d \in Distributions, o \in LabelOrders :
        LET scores == [k \in 1..3 |-> <<labels[o[k]], d[o[k]]>>]
        IN  /\ last' = [op |-> "_get_dominant_sentiment", scores |-> scores,
                        dominant |-> _get_dominant_sentiment(scores)]
            /\ UNCHANGED inst

\* summarization_service.summarize_text(text, max_length)
SummarizeText ==
    /\ Ready
    /\ inst.cap = "summarization"
    /\ \E text \in SumTexts, max_length \in OptMaxLengths, fault \in Faults(SumStages) :
        \E decoded \in Answers(fault, Summaries) :
            LET r == summarize_text(inst, text, max_length, fault, decoded)
            IN  /\ inst' = AfterRun(r.run)
                /\ last' = [op |-> "summarize_text", text |-> text,
                            max_length |-> max_length, fault |-> fault,
                            decoded |-> decoded, result |-> r]

\* summarization_service.extract_keywords(text, num_keywords)
ExtractKeywords ==
    /\ Ready
    /\ inst.cap = "summarization"
    /\ \E text \in {<<"a">>}, given \in OptNumKeywords, fault \in Faults(SumStages) :
        \E items \in Answers(fault, KeywordItemLists) :
            LET num_keywords == IF given = None THEN DEFAULT_NUM_KEYWORDS ELSE Get(given)
                r == extract_keywords(inst, text, num_keywords, fault, Join(items))
            IN  /\ inst' = AfterRun(r.run)
                /\ last' = [op |-> "extract_keywords", text |-> text,
                            num_keywords |-> num_keywords, fault |-> fault,
                            items |-> items, result |-> r]

\* style_transfer_service.transform_text(text, target_style)
TransformText ==
    /\ Ready
    /\ inst.cap = "style_transfer"
    /\ \E text \in StyleTexts, target_style \in StyleInputs, fault \in Faults(StyleStages) :
        \E decoded \in Answers(fault, Transformed) :
            LET r == transform_text(inst, text, target_style, fault, decoded)
            IN  /\ inst' = AfterRun(r.run)
                /\ last' = [op |-> "transform_text", text |-> text,
                            target_style |-> target_style, fault |-> fault,
                            decoded |-> decoded, result |-> r]

(***************************************************************************)
(* A series of accesses to one service instance, one after the other,      *)
(* from its construction on: reads of the tokenizer and model properties   *)
(* and transform calls.  The series keeps the kinds of access made so far  *)
(* and counts how often each loader was called (loads) and how often it    *)
(* raised (failed).                                                        *)
(***************************************************************************)
MaxCalls == 3

StagesOf(cap) ==
    CASE cap = "nlp"            -> GenStages
      [] cap = "nlp_legacy"     -> GenStages
      [] cap = "sentiment"      -> SentStages
      [] cap = "summarization"  -> SumStages
      [] cap = "style_transfer" -> StyleStages

\* the transform of instance i on a sample input
Transform(i, fault) ==
    CASE i.cap = "nlp"            -> generate_text(i, <<"a">>, fault, <<"a", "b">>)
      [] i.cap = "nlp_legacy"     -> predictive_sentences(i, <<"a">>, fault, <<"a", "b">>)
      [] i.cap = "sentiment"      ->
             analyze_sentiment(i, <<"a">>, fault, CHOOSE d \in Distributions : TRUE)
      [] i.cap = "summarization"  ->
             summarize_text(i, SampleText(ShortTextLength + 1, 0), None, fault,
                            <<"s", "u", "m">>)
      [] i.cap = "style_transfer" ->
             transform_text(i, <<"da", "ten">>, "formal", fault, <<"t">>)

SeriesOpen ==
    \/ last.op = "construct" /\ inst.cap \in Capabilities
    \/ last.op = "series" /\ last.n < MaxCalls

Times(x, seq) == Cardinality({k \in 1..Len(seq) : seq[k] = x})

\* the series op after the access on instance i that ran the oracle as run
\* and gave r; exc is the exception the loader raises when it is the fault
Tally(op, i, access, fault, exc, run, r) ==
    LET old == IF last.op = op THEN last
               ELSE [n |-> 0, kinds |-> {}, loads |-> [tokenizer |-> 0, model |-> 0],
                     failed |-> [tokenizer |-> 0, model |-> 0]]
        raisedBy(st) == IF run.raised /\ Last(run.calls) = st THEN 1 ELSE 0
    IN  [op     |-> op,
         n      |-> old.n + 1,
         kinds  |-> old.kinds \cup {access},
         access |-> access,
         fault  |-> fault,
         exc    |-> exc,
         before |-> [tokenizer |-> i.tokenizer, model |-> i.model],
         loads  |-> [tokenizer |-> old.loads.tokenizer + Times(LoadTokenizer, run.calls),
                     model     |-> old.loads.model + Times(LoadModel, run.calls)],
         failed |-> [tokenizer |-> old.failed.tokenizer + raisedBy(LoadTokenizer),
                     model     |-> old.failed.model + raisedBy(LoadModel)],
         result |-> r]

\* service.tokenizer
AccessTokenizer ==
    /\ SeriesOpen
    /\ \E fault \in {NoFault, LoadTokenizer}, exc \in LoaderErrors :
        LET r == tokenizer_property(inst, fault, exc)
        IN  /\ inst' = AfterRun(r.run)
            /\ last' = Tally("series", inst, "tokenizer", fault, exc, r.run, r)

\* service.model
AccessModel ==
    /\ SeriesOpen
    /\ \E fault \in {NoFault, LoadModel}, exc \in LoaderErrors :
        LET r == model_property(inst, fault, exc)
        IN  /\ inst' = AfterRun(r.run)
            /\ last' = Tally("series", inst, "model", fault, exc, r.run, r)

\* one more transform call on the instance
CallTransform ==
    /\ SeriesOpen
    /\ \E fault \in Faults(StagesOf(inst.cap)) :
        LET r == Transform(inst, fault)
        IN  /\ inst' = AfterRun(r.run)
            /\ last' = Tally("series", inst, "transform", fault, "Exception", r.run, r)

\* ClicheService(): the phrase list is set
ConstructCliche ==
    /\ last.op \in {"init", "construct", "taken"}
    /\ inst' = ClicheInstance
    /\ last' = [op |-> "construct", cap |-> "cliche"]

\* cliche_service.get_random_cliche(exclude)
GetRandomCliche ==
    /\ Ready
    /\ inst.cap = "cliche"
    /\ \E exclude \in Opt(ExcludeSets), draw \in Draws :
        LET r == get_random_cliche(inst, exclude, draw)
        IN  /\ inst' = [inst EXCEPT !.cliches = r.cliches]
            /\ last' = [op |-> "get_random_cliche", exclude |-> exclude,
                        draw |-> draw, result |-> r]

\* the service a handler ran on, as the request leaves it
Served(cap, h) ==
    IF h.service = None THEN NewInstance(cap)
    ELSE [cap |-> cap, tokenizer |-> Get(h.service).run.tokenizer,
          model |-> Get(h.service).run.model]

\* A request to a router: the handler runs on a service of its own, built
\* for the request by the Depends factory.
PostStyleTransfer ==
    /\ Ready
    /\ \E text \in Opt({<<"da", "ten">>, <<"de", "su", "maru">>}), style \in Opt(StyleInputs),
          fault \in Faults(StyleStages) :
        LET body == [text |-> text, target_style |-> style]
            h    == transfer_style(body, fault, <<"t">>)
        IN  /\ inst' = Served("style_transfer", h)
            /\ last' = [op |-> "POST /style_transfer/", body |-> body, fault |-> fault,
                     response |-> h.response, service |-> h.service]

PostSummarization ==
    /\ Ready
    /\ \E text \in Opt(SumTexts), max_length \in BodyMaxLengths, fault \in Faults(SumStages) :
        LET body == [text |-> text, max_length |-> max_length]
            h    == summarize_text_endpoint(body, fault, <<"s", "u", "m">>)
        IN  /\ inst' = Served("summarization", h)
            /\ last' = [op |-> "POST /summarization/", body |-> body, fault |-> fault,
                     response |-> h.response, service |-> h.service]

PostKeywords ==
    /\ Ready
    /\ \E text \in Opt({<<"a">>}), max_length \in {None, Some(MAX_LENGTH_LE + 1)},
          fault \in Faults(SumStages) :
        \E items \in Answers(fault, KeywordItemLists) :
            LET body == [text |-> text, max_length |-> max_length]
                h    == extract_keywords_endpoint(body, fault, Join(items))
            IN  /\ inst' = Served("summarization", h)
                /\ last' = [op |-> "POST /summarization/keywords", body |-> body,
                         fault |-> fault, items |-> items,
                         response |-> h.response, service |-> h.service]

PostSentiment ==
    /\ Ready
    /\ \E text \in Opt(SentTexts), fault \in Faults(SentStages) :
        \E scores \in Answers(fault, Distributions) :
            LET body == [text |-> text]
                h    == analyze_sentiment_endpoint(body, fault, scores)
            IN  /\ inst' = Served("sentiment", h)
                /\ last' = [op |-> "POST /sentiment/", body |-> body, fault |-> fault,
                         scores |-> scores, response |-> h.response, service |-> h.service]

PostEmotionKeywords ==
    /\ Ready
    /\ \E text \in Opt(SentTexts), fault \in Faults(SentStages) :
        \E scores \in Answers(fault, Distributions) :
            LET body == [text |-> text]
                h    == get_emotion_keywords_endpoint(body, fault, scores)
            IN  /\ inst' = Served("sentiment", h)
                /\ last' = [op |-> "POST /sentiment/emotion_keywords", body |-> body,
                         fault |-> fault, scores |-> scores,
                         response |-> h.response, service |-> h.service]

(***************************************************************************)
(* Requests that read the same property of one new instance at the same    *)
(* time.  The property has no lock, so a thread may be switched out after  *)
(* any of its statements: the test of the attribute, the call of the       *)
(* loader, the assignment of what it returned, and the return.  An object  *)
(* is named by the number of the loader call that made it.                 *)
(***************************************************************************)
NumThreads == 2
Threads == 1..NumThreads

AccessorStep_rechecks(s, t, load) ==
    LET th == s.threads[t]
    IN  CASE th.pc = "test" ->
                 [s EXCEPT !.threads[t].pc  = IF s.attr = None THEN "load" ELSE "return",
                           !.threads[t].saw = IF s.attr = None THEN "None" ELSE "loaded"]
          [] th.pc = "load" /\ s.attr # None ->
                 [s EXCEPT !.threads[t].pc = "return"]
          [] th.pc = "load" /\ s.attr = None /\ load = "return" ->
                 [s EXCEPT !.loads = @ + 1,
                           !.threads[t].pc  = "assign",
                           !.threads[t].obj = s.loads + 1]
          [] th.pc = "load" /\ s.attr = None /\ load # "return" ->
                 [s EXCEPT !.loads = @ + 1,
                           !.threads[t].pc  = "done",
                           !.threads[t].out = Some(Raise(load, LoaderOf(s.resource)))]
          [] th.pc = "assign" ->
                 [s EXCEPT !.attr = Some(th.obj), !.threads[t].pc = "return"]
          [] th.pc = "return" ->
                 [s EXCEPT !.threads[t].pc  = "done",
                           !.threads[t].out = Some(Return(Get(s.attr)))]

\* the next statement of thread t in the property; load is what the
\* loader does if this statement calls it ("return" or the exception)
AccessorStep(s, t, load) ==
    LET th == s.threads[t]
    IN  CASE th.pc = "test" ->
                 \* if self._model is None:
                 [s EXCEPT !.threads[t].pc  = IF s.attr = None THEN "load" ELSE "return",
                           !.threads[t].saw = IF s.attr = None THEN "None" ELSE "loaded"]
          [] th.pc = "load" /\ load = "return" ->
                 \* Model.from_pretrained(self.model_name) returns an object
                 [s EXCEPT !.loads = @ + 1,
                           !.threads[t].pc  = "assign",
                           !.threads[t].obj = s.loads + 1]
          [] th.pc = "load" /\ load # "return" ->
                 \* from_pretrained raises: the attribute is left as it is
                 [s EXCEPT !.loads = @ + 1,
                           !.threads[t].pc  = "done",
                           !.threads[t].out = Some(Raise(load, LoaderOf(s.resource)))]
          [] th.pc = "assign" ->
                 \* self._model = ...
                 [s EXCEPT !.attr = Some(th.obj), !.threads[t].pc = "return"]
          [] th.pc = "return" ->
                 \* return self._model
                 [s EXCEPT !.threads[t].pc  = "done",
                           !.threads[t].out = Some(Return(Get(s.attr)))]

\* NumThreads requests start to read a property of a newly built instance
AccessTogether ==
    /\ last.op = "construct"
    /\ inst.cap \in Capabilities
    /\ \E resource \in {"tokenizer", "model"} :
        last' = [op |-> "concurrent access", resource |-> resource,
                 attr |-> None, loads |-> 0,
                 threads |-> [t \in Threads |->
                                 [pc |-> "test", saw |-> "nothing", obj |-> 0,
                                  out |-> None]]]
    /\ UNCHANGED inst

\* the scheduler lets one of the threads run its next statement
ThreadStep ==
    /\ last.op = "concurrent access"
    /\ \E t \in Threads :
        /\ last.threads[t].pc # "done"
        /\ \E load \in (IF last.threads[t].pc = "load"
                         THEN {"return"} \cup LoaderErrors ELSE {"return"}) :
            /\ last' = AccessorStep(last, t, load)
            /\ inst' = [inst EXCEPT ![last.resource] = last'.attr # None]

\* a well-formed request to a router endpoint, answered by its handler on
\* the service the endpoint's Depends factory builds
SampleRequest(endpoint, fault) ==
    CASE endpoint = "POST /sentiment/" ->
             [cap |-> "sentiment",
              h   |-> analyze_sentiment_endpoint([text |-> Some(<<"a">>)], fault,
                                                 CHOOSE d \in Distributions : TRUE)]
      [] endpoint = "POST /summarization/" ->
             [cap |-> "summarization",
              h   |-> summarize_text_endpoint(
                          [text |-> Some(SampleText(ShortTextLength + 1, 0)),
                           max_length |-> None], fault, <<"s", "u", "m">>)]
      [] endpoint = "POST /style_transfer/" ->
             [cap |-> "style_transfer",
              h   |-> transfer_style([text |-> Some(<<"da", "ten">>),
                                      target_style |-> Some("formal")], fault, <<"t">>)]

\* requests to one endpoint of the running app, one after the other
PostAgain ==
    /\ Ready \/ (last.op = "requests" /\ last.n < MaxCalls)
    /\ \E endpoint \in {"POST /sentiment/", "POST /summarization/", "POST /style_transfer/"} :
        /\ last.op = "requests" => endpoint = last.access
        /\ \E fault \in Faults(StagesOf(SampleRequest(endpoint, NoFault).cap)) :
            LET q == SampleRequest(endpoint, fault)
            IN  /\ inst' = Served(q.cap, q.h)
                /\ last' = Tally("requests", NewInstance(q.cap), endpoint, fault,
                                  "Exception", Get(q.h.service).run, q.h)

\* what a service put in place of the real one may raise, and the message
\* of the exception
DoubleErrors == {"Exception", "RuntimeError", "ValueError"}
Messages == {"CUDA out of memory", "No such file: /models/t5/config.json"}

\* a request to a router whose injected service raises (the handler takes
\* its service as a dependency, which an app may override)
PostToDouble ==
    /\ Ready
    /\ \E endpoint \in RouterOps, exc \in DoubleErrors, msg \in Messages :
        /\ last' = [op |-> "request to a raising service", endpoint |-> endpoint,
                    raised |-> Raise(exc, msg),
                    response |-> Answer(endpoint, Raise(exc, msg))]
        /\ UNCHANGED inst

\* POST /predictive_sentences_task/ on the routers' app
PostTask ==
    /\ Ready
    /\ \E text \in Opt(FormTexts), response_url \in Opt(Urls),
          tasks_enabled \in BOOLEAN, client_fault \in BOOLEAN,
          enqueue \in EnqueueOutcomes, draw \in Draws :
        LET form == [text |-> text, response_url |-> response_url]
            h    == create_predictive_sentences_task(form, tasks_enabled, client_fault,
                                                     enqueue, draw)
        IN  /\ inst' = NewInstance("task")
            /\ last' = [op |-> "POST /predictive_sentences_task/", app |-> "routers",
                        form |-> form, configured |-> tasks_enabled,
                        client_fault |-> client_fault, enqueue |-> enqueue,
                        handled |-> h]

\* POST /predictive_sentences_task/ on the app of app/main.py, whose Task
\* was built when the module was imported
PostTaskLegacy ==
    /\ Ready
    /\ \E text \in Opt(FormTexts), response_url \in Opt(Urls),
          config_valid \in BOOLEAN, enqueue \in EnqueueOutcomes, draw \in Draws :
        LET form == [text |-> text, response_url |-> response_url]
            h    == predictive_sentences_task(form, config_valid, enqueue, draw)
        IN  /\ inst' = NewInstance("task")
            /\ last' = [op |-> "POST /predictive_sentences_task/", app |-> "main",
                        form |-> form, configured |-> config_valid,
                        client_fault |-> FALSE, enqueue |-> enqueue,
                        handled |-> h]

\* POST /predictive_sentences/ arrives: the routers' app builds an
\* NLPService for the request, the app of app/main.py uses its module-level NLP
PostPredictiveSentences ==
    /\ Ready
    /\ \E app \in {"routers", "main"}, text \in Opt(DirectTexts), response_url \in Opt(Urls) :
        /\ app = "main" => inst.cap = "nlp_legacy"
        /\ inst' = IF app = "routers" THEN NewInstance("nlp") ELSE inst
        /\ last' = [op |-> "POST /predictive_sentences/",
                    req |-> SentenceRequest(app, [text |-> text,
                                                  response_url |-> response_url])]

\* the handler's call of the generator returns
GenerateStep ==
    /\ last.op = "POST /predictive_sentences/"
    /\ last.req.state = "Accepted"
    /\ \E fault \in Faults(GenStages) :
        \E decoded \in Answers(fault, DirectDecoded) :
            LET text == Get(last.req.body.text)
                r == IF last.req.app = "routers"
                     THEN generate_text(inst, text, fault, decoded)
                     ELSE predictive_sentences(inst, text, fault, decoded)
            IN  /\ inst' = AfterRun(r.run)
                /\ last' = [last EXCEPT !.req = AfterGeneration(@, r)]

\* the handler's requests.post returns or raises, and the handler answers
DeliverStep ==
    /\ last.op = "POST /predictive_sentences/"
    /\ last.req.state = "Processing"
    /\ \E post \in PostOutcomes :
        last' = [last EXCEPT !.req = AfterPost(@, post)]
    /\ UNCHANGED inst

Next ==
    \/ Construct
    \/ TakeResult
    \/ GenerateText
    \/ PredictiveSentences
    \/ AnalyzeSentiment
    \/ GetDominantSentiment
    \/ GetEmotionKeywords
    \/ SummarizeText
    \/ ExtractKeywords
    \/ TransformText
    \/ AccessTokenizer
    \/ AccessModel
    \/ CallTransform
    \/ AccessTogether
    \/ ThreadStep
    \/ PostStyleTransfer
    \/ PostSummarization
    \/ PostKeywords
    \/ PostSentiment
    \/ PostEmotionKeywords
    \/ PostAgain
    \/ PostToDouble
    \/ ConstructCliche
    \/ GetRandomCliche
    \/ PostTask
    \/ PostTaskLegacy
    \/ PostPredictiveSentences
    \/ GenerateStep
    \/ DeliverStep

Spec == Init /\ [][Next]_vars

\* The generator and requests.post each return or raise in the end, so a
\* handler that waits in one of them goes on.
LiveSpec == Spec /\ WF_vars(GenerateStep) /\ WF_vars(DeliverStep)

(***************************************************************************)
(* Properties.                                                             *)
(***************************************************************************)
ServiceCall(op) == last.op = op
OracleFailed == last.result.run.raised

\* the first n characters of s (all of s when it is shorter)
FirstChars(s, n) == [k \in 1..(IF n < Len(s) THEN n ELSE Len(s)) |-> s[k]]

EndsWith(s, suffix) ==
    /\ Len(s) >= Len(suffix)
    /\ \A k \in 1..Len(suffix) : s[Len(s) - Len(suffix) + k] = suffix[k]

\* C1: when a primitive of the oracle raises (tokenizer or model
\* acquisition, encode, generate, decode), generate_text -- and the older
\* predictive_sentences -- returns exactly the input text, unmodified, and
\* in no case raises, whatever the text and the parameters.
C1_GenerationFallsBackToInput ==
    (ServiceCall("generate_text") \/ ServiceCall("predictive_sentences")) =>
        /\ last.result.outcome.kind = "return"
        /\ OracleFailed => last.result.outcome.value = last.text

C1_Witness ==
    /\ ServiceCall("generate_text")
    /\ OracleFailed
    /\ last.fault = "model.generate"
    /\ Contains(last.text, EosMarker)
    /\ last.params.max_additional_tokens = 0

\* C2: when a primitive of the oracle raises, analyze_sentiment returns
\* exactly {sentiment: "neutral", score: 1.0, details: {positive: 0,
\* neutral: 1, negative: 0}} and in no case raises.
C2_SentimentFallsBackToNeutral ==
    ServiceCall("analyze_sentiment") =>
        /\ last.result.outcome.kind = "return"
        /\ OracleFailed =>
            LET v == last.result.outcome.value
            IN  /\ DOMAIN v = {"sentiment", "score", "details"}
                /\ v.sentiment = "neutral"
                /\ v.score = ScoreUnits
                /\ AsMapping(v.details) =
                       [l \in {"positive", "neutral", "negative"} |->
                            IF l = "neutral" THEN ScoreUnits ELSE 0]

C2_Witness ==
    /\ ServiceCall("analyze_sentiment")
    /\ OracleFailed
    /\ last.fault = "model.call"

RequestedLength == IF last.max_length = None THEN 100 ELSE Get(last.max_length)

\* C3: when a primitive of the oracle raises on an input of at least 50
\* characters, summarize_text returns input[:max_length] + "...", which
\* ends with the ellipsis and is at most max_length + 3 long, max_length
\* being the requested value or 100 when none is given; it does not raise.
C3_SummaryFallsBackToTruncation ==
    ServiceCall("summarize_text") =>
        /\ last.result.outcome.kind = "return"
        /\ (OracleFailed /\ Len(last.text) >= 50) =>
            LET v == last.result.outcome.value
            IN  /\ v = FirstChars(last.text, RequestedLength) \o <<".", ".", ".">>
                /\ EndsWith(v, <<".", ".", ".">>)
                /\ Len(v) <= RequestedLength + 3

C3_Witness ==
    /\ ServiceCall("summarize_text")
    /\ OracleFailed
    /\ last.max_length = Some(10)
    /\ Len(last.text) > 50
    /\ Len(last.result.outcome.value) = 13

\* C4: when a primitive of the oracle raises, extract_keywords returns the
\* empty list and in no case raises, whatever the text and num_keywords.
C4_KeywordsFallBackToEmptyList ==
    ServiceCall("extract_keywords") =>
        /\ last.result.outcome.kind = "return"
        /\ OracleFailed => last.result.outcome.value = << >>

C4_Witness ==
    /\ ServiceCall("extract_keywords")
    /\ OracleFailed
    /\ last.fault = "tokenizer.decode"
    /\ last.num_keywords = 7

\* C5: for a target style of the catalog transform_text does not raise:
\* when the model-based transform fails (acquisition failures included) it
\* hands the same (text, style) to the rule-based fallback, whose result it
\* returns, and the fallback does not fail.
C5_StyleTransferFallsBackToRules ==
    (ServiceCall("transform_text") /\ last.target_style \in StyleSet) =>
        /\ last.result.outcome.kind = "return"
        /\ OracleFailed =>
            /\ last.result.fallback = Some(<<last.text, last.target_style>>)
            /\ _transform_with_rules(last.text, last.target_style).kind = "return"
            /\ last.result.outcome = _transform_with_rules(last.text, last.target_style)

C5_Witness ==
    /\ ServiceCall("transform_text")
    /\ last.target_style = "formal"
    /\ OracleFailed
    /\ last.fault = LoadModel
    /\ last.result.outcome.kind = "return"
    /\ last.result.outcome.value # last.text

NamesTheStyles(msg, rejected) ==
    /\ msg[1] = "Unsupported style: "
    /\ msg[2] = rejected
    /\ \A style \in {"meiji", "taisho", "showa", "formal", "casual", "academic", "poetic"} :
           \E k \in 3..Len(msg) : msg[k] = style

\* C6: for a style name outside the catalog transform_text raises a
\* ValueError whose message names the rejected style and lists every catalog
\* style, before any oracle call or rule-based fallback; POST
\* /style_transfer/ answers it with 400 carrying that message, not 200 or 500.
C6_UnknownStyleIsRejected ==
    /\ (ServiceCall("transform_text") /\ last.target_style \notin StyleSet) =>
        /\ last.result.outcome.kind = "raise"
        /\ last.result.outcome.exc = "ValueError"
        /\ NamesTheStyles(last.result.outcome.msg, last.target_style)
        /\ last.result.run.calls = << >>
        /\ last.result.fallback = None
    /\ (/\ last.op = "POST /style_transfer/"
        /\ ValidStyleTransferRequest(last.body)
        /\ Get(last.body.target_style) \notin StyleSet) =>
        /\ last.response.status = 400
        /\ NamesTheStyles(last.response.body.detail, Get(last.body.target_style))
        /\ Get(last.service).run.calls = << >>
        /\ Get(last.service).fallback = None

C6_Witness ==
    /\ last.op = "POST /style_transfer/"
    /\ last.body.text # None
    /\ last.body.target_style = Some("unknown")
    /\ last.fault = LoadTokenizer
    /\ last.response.status = 400

\* the request passed validation and, for style transfer, names a catalog style
ServedRequest ==
    /\ last.op \in RouterOps
    /\ last.service # None
    /\ last.op = "POST /style_transfer/" => Get(last.body.target_style) \in StyleSet

\* C7: with the real services behind the routers an oracle failure does not
\* reach the client: a valid request to /sentiment/, /sentiment/
\* emotion_keywords, /summarization/, /summarization/keywords or (with a
\* catalog style) /style_transfer/ is answered 200, with the service's
\* fallback value when the oracle fails, and never by the routers' 500 branch.
C7_OracleFailuresAreAbsorbed ==
    ServedRequest =>
        /\ last.response.status = 200
        /\ Get(last.service).run.raised =>
            LET text == Get(last.body.text)
                body == last.response.body
            IN  CASE last.op = "POST /sentiment/" ->
                       /\ body.sentiment = "neutral"
                       /\ body.score = ScoreUnits
                       /\ AsMapping(body.details) =
                              [l \in {"positive", "neutral", "negative"} |->
                                   IF l = "neutral" THEN ScoreUnits ELSE 0]
                  [] last.op = "POST /sentiment/emotion_keywords" ->
                       /\ DOMAIN body = {"calm", "contemplative"}
                       /\ body = EmotionKeywords.neutral
                  [] last.op = "POST /summarization/" ->
                       body.summary =
                           FirstChars(text, IF last.body.max_length = None THEN 100
                                            ELSE Get(last.body.max_length))
                           \o <<".", ".", ".">>
                  [] last.op = "POST /summarization/keywords" -> body = << >>
                  [] last.op = "POST /style_transfer/" ->
                       body.transformed_text =
                           _transform_with_rules(text, Get(last.body.target_style)).value

C7_Witness ==
    /\ last.op = "POST /summarization/"
    /\ last.service # None
    /\ Get(last.service).run.raised
    /\ last.body.max_length = None
    /\ Len(Get(last.body.text)) > 100
    /\ last.response.status = 200

IsArgmax(scores, dominant) ==
    /\ \E k \in 1..Len(scores) : scores[k] = dominant
    /\ \A k \in 1..Len(scores) : scores[k][2] <= dominant[2]

\* the labels whose score ties with the dominant score
Tied(scores, dominant) ==
    {scores[k][1] : k \in {j \in 1..Len(scores) : scores[j][2] = dominant[2]}}

FirstInFixedOrder(S) ==
    IF "negative" \in S THEN "negative"
    ELSE IF "neutral" \in S THEN "neutral" ELSE "positive"

FirstInDictOrder(scores, S) ==
    scores[CHOOSE k \in 1..Len(scores) :
               /\ scores[k][1] \in S
               /\ \A j \in 1..(k - 1) : scores[j][1] \notin S][1]

\* C9 as stated: the dominant label is an argmax with its own score, and on
\* an exact tie for the maximum it is the first tied label in the order
\* negative, neutral, positive, in whatever order the scores mapping was built.
C9_TieBreakIgnoresDictOrder ==
    /\ ServiceCall("_get_dominant_sentiment") =>
        /\ IsArgmax(last.scores, last.dominant)
        /\ last.dominant[1] = FirstInFixedOrder(Tied(last.scores, last.dominant))
    /\ (ServiceCall("analyze_sentiment") /\ ~OracleFailed) =>
        LET v        == last.result.outcome.value
            dominant == <<v.sentiment, v.score>>
        IN  /\ IsArgmax(v.details, dominant)
            /\ v.sentiment = FirstInFixedOrder(Tied(v.details, dominant))

\* C9, amended: the dominant label is an argmax with its own score; on an
\* exact tie for the maximum _get_dominant_sentiment returns the first tied
\* label in the iteration order of the mapping it is given, and since
\* analyze_sentiment builds the mapping in the order negative, neutral,
\* positive its result is the first tied label in that order.
C9_TieBreakFollowsDictOrder ==
    /\ ServiceCall("_get_dominant_sentiment") =>
        /\ IsArgmax(last.scores, last.dominant)
        /\ last.dominant[1] =
               FirstInDictOrder(last.scores, Tied(last.scores, last.dominant))
    /\ (ServiceCall("analyze_sentiment") /\ ~OracleFailed) =>
        LET v        == last.result.outcome.value
            dominant == <<v.sentiment, v.score>>
        IN  /\ AsMapping(v.details) =
                   [l \in {"negative", "neutral", "positive"} |->
                        last.scores[CHOOSE k \in 1..3 : labels[k] = l]]
            /\ IsArgmax(v.details, dominant)
            /\ v.sentiment = FirstInFixedOrder(Tied(v.details, dominant))

\* a two-way tie for the maximum in a mapping built positive-first
C9_Witness ==
    /\ ServiceCall("_get_dominant_sentiment")
    /\ last.scores[1][1] = "positive"
    /\ last.scores[1][2] = last.scores[3][2]
    /\ last.scores[2][2] < last.scores[1][2]
    /\ last.dominant[1] = "positive"

\* the items of a comma-delimited text: the text with no comma is one item
ItemsOf(items) == IF items = << >> THEN << << >> >> ELSE items

Blank(item) == \A k \in 1..Len(item) : item[k] \in {" ", "\t", "\n"}

\* r is item without its leading and trailing whitespace
IsTrimOf(r, item) ==
    IF Blank(item) THEN r = << >>
    ELSE \E a, b \in 1..Len(item) :
            /\ r = SubSeq(item, a, b)
            /\ item[a] \notin {" ", "\t", "\n"}
            /\ item[b] \notin {" ", "\t", "\n"}
            /\ \A k \in 1..Len(item) : (k < a \/ k > b) => item[k] \in {" ", "\t", "\n"}

KeywordsReturned == last.result.outcome.value

\* C10 as stated: from a decoded output of N >= 5 comma-delimited items
\* extract_keywords with the default count returns exactly 5 strings, each
\* trimmed and non-empty, the first 5 items in order; in general the result
\* has length min(num_keywords, N).
C10_FiveNonEmptyKeywords ==
    (ServiceCall("extract_keywords") /\ ~OracleFailed) =>
        LET items == ItemsOf(last.items)
        IN  /\ Len(KeywordsReturned) = Min(last.num_keywords, Len(items))
            /\ (last.num_keywords = 5 /\ Len(items) >= 5) =>
                /\ Len(KeywordsReturned) = 5
                /\ \A k \in 1..5 :
                    /\ IsTrimOf(KeywordsReturned[k], items[k])
                    /\ KeywordsReturned[k] # << >>

\* What extract_keywords does return (the part of C10 the code keeps): the
\* first min(num_keywords, N) items in order (num_keywords >= 0), each trimmed
\* of surrounding whitespace; an item that is empty or all whitespace is kept
\* as an empty string, every other one is non-empty.
C10_FiveTrimmedKeywords ==
    (ServiceCall("extract_keywords") /\ ~OracleFailed) =>
        LET items == ItemsOf(last.items)
        IN  /\ Len(KeywordsReturned) = Min(last.num_keywords, Len(items))
            /\ \A k \in 1..Len(KeywordsReturned) :
                /\ IsTrimOf(KeywordsReturned[k], items[k])
                /\ KeywordsReturned[k] = << >> <=> Blank(items[k])
            /\ (last.num_keywords = 5 /\ Len(items) >= 5) => Len(KeywordsReturned) = 5

\* six items, the second of them blank, and the default count: the second
\* keyword returned is the empty string
C10_Witness ==
    /\ ServiceCall("extract_keywords")
    /\ ~OracleFailed
    /\ last.num_keywords = 5
    /\ Len(last.items) = 6
    /\ Blank(last.items[2])
    /\ ~Blank(last.items[1])
    /\ Len(KeywordsReturned) = 5
    /\ KeywordsReturned[2] = << >>

PhraseSet == {cliches[k] : k \in 1..Len(cliches)}

ExcludeGiven == IF last.exclude = None THEN {} ELSE Get(last.exclude)

\* C11: with exclude equal to the full phrase set, or a superset of it,
\* get_random_cliche does not raise and returns a non-empty phrase of the
\* full phrase set.
C11_FullExcludeFallsBackToFullSet ==
    (ServiceCall("get_random_cliche") /\ PhraseSet \subseteq ExcludeGiven) =>
        /\ last.result.outcome.kind = "return"
        /\ last.result.outcome.value \in PhraseSet
        /\ last.result.outcome.value # ""

\* exclude is the full phrase set and one more str; the last phrase is drawn
C11_Witness ==
    /\ ServiceCall("get_random_cliche")
    /\ ExcludeGiven = PhraseSet \cup {"other"}
    /\ last.result.outcome = Return(cliches[Len(cliches)])

\* C12: when exclude leaves at least one phrase, get_random_cliche returns
\* a phrase of the fixed set that is not in exclude; with exclude absent or
\* empty it returns a phrase of the full set; and self.cliches is the same
\* list after the call as before it.
C12_ExcludedPhrasesAreNotReturned ==
    /\ ServiceCall("get_random_cliche") =>
        /\ last.result.outcome.kind = "return"
        /\ last.result.outcome.value \in PhraseSet
        /\ (PhraseSet \ ExcludeGiven # {}) =>
               last.result.outcome.value \notin ExcludeGiven
        /\ last.result.cliches = cliches
    /\ inst.cap = "cliche" => inst.cliches = cliches

\* the first two phrases are excluded and the draw of index 0 gives the third
C12_Witness ==
    /\ ServiceCall("get_random_cliche")
    /\ ExcludeGiven = {cliches[1], cliches[2]}
    /\ last.draw = 0
    /\ last.result.outcome = Return(cliches[3])

TaskRequest == last.op = "POST /predictive_sentences_task/"
DirectRequest == last.op = "POST /predictive_sentences/"

\* C13: on POST /predictive_sentences_task/, on every app that serves the
\* path, a valid request that cannot be enqueued because the task backend
\* is disabled or misconfigured is answered 503 -- not 200, 500 or 502.
C13_EnqueueFailureIsServiceUnavailable ==
    (TaskRequest /\ ValidTaskForm(last.form) /\ ~last.configured) =>
        last.handled.response.status = 503

\* the acknowledgment: 200 with a text; on the routers' app the text is a
\* phrase of ClicheService
Placeholder(response) ==
    /\ response.status = 200
    /\ response.body.text # ""
    /\ last.app = "routers" => response.body.text \in PhraseSet

\* C14: on POST /predictive_sentences_task/ the placeholder acknowledgment
\* is the answer exactly when the enqueue call returned; the handler calls
\* neither the text generator nor requests.post, so its answer cannot
\* depend on the delivery.
C14_PlaceholderIffEnqueued ==
    TaskRequest =>
        /\ Placeholder(last.handled.response) <=> last.handled.created
        /\ last.handled.created <=> last.handled.queued # << >>
        /\ \A k \in 1..Len(last.handled.calls) :
               last.handled.calls[k] \notin {"generate_text", "requests.post"}

\* the routers' app enqueues a task and answers with a phrase
C14_Witness ==
    /\ TaskRequest
    /\ last.app = "routers"
    /\ last.handled.created
    /\ Len(last.handled.queued) = 1
    /\ last.handled.response.status = 200
    /\ last.handled.response.body.text = cliches[2]

\* C15: a generate-and-deliver request calls requests.post at most once; a
\* request that has ended has called it exactly once, and one whose POST
\* failed has not called it again.
C15_SingleDeliveryAttempt ==
    DirectRequest =>
        /\ Len(last.req.posted) <= 1
        /\ last.req.state \in {"Delivered", "DeliveryFailed"} =>
               /\ Len(last.req.posted) = 1
               /\ Last(last.req.calls) = "requests.post"
        /\ last.req.state \in {"Accepted", "Rejected"} => last.req.posted = << >>

\* the POST raised a connection error and the request ended with one POST
C15_Witness ==
    /\ DirectRequest
    /\ last.req.state = "DeliveryFailed"
    /\ Get(last.req.post) = Raise("ConnectionError", "requests.post")
    /\ Len(last.req.posted) = 1

Is2xx(post) == post.kind = "return" /\ 200 <= post.value /\ post.value < 300

\* C16: on POST /predictive_sentences/ the answer is 202 only after the
\* outbound POST returned a 2xx status; when the POST raises a network
\* error or returns any other status the answer is 502.
C16_AcceptedOnlyAfterSuccessStatus ==
    (DirectRequest /\ last.req.post # None) =>
        /\ Is2xx(Get(last.req.post)) => Get(last.req.response).status = 202
        /\ ~Is2xx(Get(last.req.post)) => Get(last.req.response).status = 502

Ended(req) == req.state \in {"Delivered", "DeliveryFailed"}

\* a step of a request: Accepted to Processing, Processing to Delivered or
\* DeliveryFailed, and an ended request only leaves
LifecycleStep ==
    /\ (DirectRequest /\ last.req.state = "Accepted") =>
           (last'.op = "POST /predictive_sentences/" /\ last'.req.state = "Processing")
    /\ (DirectRequest /\ last.req.state = "Processing") =>
           (last'.op = "POST /predictive_sentences/" /\ Ended(last'.req))
    /\ (DirectRequest /\ ~InFlight(last.req)) => last'.op = "taken"
    /\ (~DirectRequest /\ last'.op = "POST /predictive_sentences/") =>
           last'.req.state \in {"Accepted", "Rejected"}

\* C17: an accepted generate-and-deliver request goes from Accepted to
\* Processing and from there to exactly one of Delivered and DeliveryFailed,
\* with no other step (none back, none skipping, no cancel), and, the
\* generator and the POST returning or failing in the end, it does reach
\* Delivered or DeliveryFailed.
C17_RequestLifecycle ==
    /\ [][LifecycleStep]_vars
    /\ (DirectRequest /\ last.req.state = "Accepted")
           ~> (DirectRequest /\ Ended(last.req))

\* a request on the app of app/main.py whose generator failed on the model
\* load, and which was delivered all the same
C17_Witness ==
    /\ DirectRequest
    /\ last.req.app = "main"
    /\ last.req.state = "Delivered"
    /\ last.req.calls = <<"generate_text", "requests.post">>
    /\ last.req.generated = last.req.body.text
    /\ ~inst.model

\* C18: on POST /predictive_sentences/ and on POST
\* /predictive_sentences_task/ a request whose response_url is not a
\* well-formed URL is rejected (answered with an error status) before any
\* text is generated, any task enqueued or any POST sent.
C18_MalformedUrlIsRejectedFirst ==
    /\ (TaskRequest /\ last.form.response_url # None
            /\ ~HttpUrl(Get(last.form.response_url))) =>
           /\ last.handled.response.status >= 400
           /\ last.handled.calls = << >>
           /\ last.handled.queued = << >>
    /\ (DirectRequest /\ last.req.body.response_url # None
            /\ ~HttpUrl(Get(last.req.body.response_url))) =>
           /\ last.req.state = "Rejected"
           /\ Get(last.req.response).status >= 400
           /\ last.req.calls = << >>
           /\ last.req.posted = << >>

\* C19: a transform request whose text is empty does not reach a service:
\* validation answers it with a 4xx status first.
C19_EmptyTextIsRejectedFirst ==
    (last.op \in RouterOps /\ last.body.text = Some(<< >>)) =>
        /\ last.service = None
        /\ last.response.status \in 400..499

\* C20: POST /summarization/ reaches the summarization service only with a
\* text and a max_length that is omitted (the service then gets 100) or an
\* integer from 10 to 500; a request with max_length outside that range, or
\* without its text, is answered with a 4xx validation error and the
\* service is not called.
C20_MaxLengthIsValidatedFirst ==
    last.op = "POST /summarization/" =>
        LET given    == last.body.max_length
            in_range == given = None \/ (10 <= Get(given) /\ Get(given) <= 500)
            text     == Get(last.body.text)
        IN  /\ (last.body.text # None /\ in_range) =>
                /\ last.service # None
                /\ last.response.status = 200
                /\ (Get(last.service).run.raised /\ Len(text) >= 50) =>
                       last.response.body.summary =
                           FirstChars(text, IF given = None THEN 100 ELSE Get(given))
                               \o <<".", ".", ".">>
            /\ (last.body.text = None \/ ~in_range) =>
                /\ last.service = None
                /\ last.response.status \in 400..499

\* a max_length of 501 is answered 422 and no service call is made
C20_Witness ==
    /\ last.op = "POST /summarization/"
    /\ last.body.text # None
    /\ last.body.max_length = Some(501)
    /\ last.response.status = 422
    /\ last.service = None


\* the step of a series read the resource: a property read, or a transform
\* that touched the oracle and did not raise before it came to the resource
Reached(resource) ==
    \/ last.access = resource
    \/ /\ last.access = "transform"
       /\ last.result.run.calls # << >>
       /\ (resource = "model" /\ last.result.run.raised) =>
              LET stages == StagesOf(inst.cap)
              IN  \E k \in 1..Len(stages) :
                      /\ stages[k] = LoadModel
                      /\ \E j \in k..Len(stages) : stages[j] = last.fault

\* C21 as stated: over a series of transform calls on one instance, each
\* loader is called at most once.
C21_LoaderCalledAtMostOnce ==
    (last.op = "series" /\ last.kinds = {"transform"}) =>
        \A resource \in {"tokenizer", "model"} : last.loads[resource] <= 1

\* C21, amended: a service is built with neither resource loaded; an
\* access that finds the resource unloaded calls its loader, once; after a
\* load that returned, no later access on the instance calls the loader
\* and the resource stays loaded, so over a series of accesses each loader
\* returns at most once, and every other call of it is one that raised.
C21_LoadOncePerInstance ==
    /\ (last.op = "construct" /\ inst.cap \in Capabilities) =>
            ~inst.tokenizer /\ ~inst.model
    /\ last.op = "series" =>
        \A resource \in {"tokenizer", "model"} :
            LET called == Times(LoaderOf(resource), last.result.run.calls)
            IN  /\ last.before[resource] => called = 0 /\ inst[resource]
                /\ (~last.before[resource] /\ Reached(resource)) => called = 1
                /\ last.loads[resource] - last.failed[resource] <= 1
                /\ inst[resource] <=> last.loads[resource] - last.failed[resource] = 1

\* the first transform call's tokenizer load raises, the second loads both
\* resources, the third finds them loaded and calls no loader
C21_Witness ==
    /\ last.op = "series"
    /\ last.n = 3
    /\ last.kinds = {"transform"}
    /\ last.before.tokenizer /\ last.before.model
    /\ last.loads.tokenizer = 2 /\ last.failed.tokenizer = 1
    /\ last.loads.model = 1
    /\ last.result.run.calls # << >>


\* C22: over a sequence of requests to one endpoint in which no load
\* raises, the tokenizer and the model are each constructed at most once in
\* total and reused by the later requests.
C22_ResourcesBuiltOncePerEndpoint ==
    (last.op = "requests" /\ last.failed = [tokenizer |-> 0, model |-> 0]) =>
        last.loads.tokenizer <= 1 /\ last.loads.model <= 1


\* the detail each endpoint gives with a 500
GenericDetail(endpoint) ==
    CASE endpoint = "POST /style_transfer/" ->
             "An unexpected error occurred during style transfer"
      [] endpoint = "POST /summarization/" ->
             "An unexpected error occurred during summarization"
      [] endpoint = "POST /summarization/keywords" ->
             "An unexpected error occurred during keyword extraction"
      [] endpoint = "POST /sentiment/" ->
             "An unexpected error occurred during sentiment analysis"
      [] endpoint = "POST /sentiment/emotion_keywords" ->
             "An unexpected error occurred while retrieving emotion keywords"
      [] endpoint = "POST /predictive_sentences/" ->
             "An unexpected error occurred during text generation"

\* C23: a 500 carries a detail fixed per endpoint, whatever was raised: the
\* body of a 500 from a router is the endpoint's generic detail and is not
\* the exception's message, so two exceptions behind one endpoint get the
\* same body; the 500 of the task endpoints is "Failed to create task" or
\* the exception handler's "An unexpected error occurred", whichever
\* exception the task backend raised.
C23_ServerErrorsAreGeneric ==
    /\ (last.op = "request to a raising service" /\ last.response.status = 500) =>
            /\ last.response.body = [detail |-> GenericDetail(last.endpoint)]
            /\ last.response.body.detail # last.raised.msg
    /\ (last.op \in RouterOps /\ last.response.status = 500) =>
            last.response.body = [detail |-> GenericDetail(last.op)]
    /\ (TaskRequest /\ last.handled.response.status = 500) =>
            last.handled.response.body \in
                {[detail |-> "Failed to create task"],
                 [detail |-> "An unexpected error occurred"]}
    /\ (DirectRequest /\ last.req.response # None) =>
            (Get(last.req.response).status = 500 =>
                Get(last.req.response).body =
                    [detail |-> GenericDetail("POST /predictive_sentences/")])

\* the summarization service raises an exception that is not a ValueError
C23_Witness ==
    /\ last.op = "request to a raising service"
    /\ last.endpoint = "POST /summarization/"
    /\ last.raised.exc = "Exception"
    /\ last.raised.msg = "CUDA out of memory"
    /\ last.response.status = 500


\* the category names of each label
CategoriesOf(label) ==
    CASE label = "positive" -> {"joy", "excitement", "gratitude"}
      [] label = "negative" -> {"anger", "sadness", "fear"}
      [] label = "neutral"  -> {"calm", "contemplative"}

\* the labels with the greatest score in a softmax row
TopLabels(scores) ==
    {labels[k] : k \in {j \in 1..Len(labels) :
                            \A i \in 1..Len(labels) : scores[i] <= scores[j]}}

\* C24: get_emotion_keywords returns the categories of the label it is
\* given when that is positive, negative or neutral, and for any other
\* label exactly the neutral categories; POST /sentiment/emotion_keywords
\* answers the categories of the dominant label of the text, and the
\* neutral categories when the oracle fails.
C24_EmotionKeywordsFollowTheLabel ==
    /\ ServiceCall("get_emotion_keywords") =>
            LET label == IF last.sentiment \in {"positive", "negative", "neutral"}
                         THEN last.sentiment ELSE "neutral"
            IN  /\ DOMAIN last.result = CategoriesOf(label)
                /\ last.result = EmotionKeywords[label]
    /\ (ServiceCall("POST /sentiment/emotion_keywords") /\ last.service # None) =>
            LET label == IF last.fault # NoFault THEN "neutral"
                         ELSE FirstInFixedOrder(TopLabels(last.scores))
            IN  /\ last.response.status = 200
                /\ DOMAIN last.response.body = CategoriesOf(label)
                /\ last.response.body = EmotionKeywords[label]

\* a label the service does not know
C24_Witness ==
    /\ ServiceCall("get_emotion_keywords")
    /\ last.sentiment = "mixed"
    /\ "calm" \in DOMAIN last.result


RECURSIVE AfterRules(_, _, _)
\* the text after the first k rules, each applied to the whole text the
\* rule before it gave
AfterRules(rules, text, k) ==
    IF k = 0 THEN text
    ELSE ReSub(rules[k].pat, rules[k].rep, AfterRules(rules, text, k - 1)).value

\* C25: when the model-based transform fails, the text transform_text
\* returns for formal, casual or meiji is the input after the style's rules,
\* first to last as declared, each applied to the whole text the previous
\* one gave; for taisho, showa, academic and poetic, which have no rules,
\* it is the input unchanged.
C25_RulesApplyInDeclarationOrder ==
    (ServiceCall("transform_text") /\ last.target_style \in StyleSet /\ OracleFailed) =>
        /\ last.result.outcome.kind = "return"
        /\ last.target_style \in {"formal", "casual", "meiji"} =>
               LET rules == transformation_rules[last.target_style]
               IN  last.result.outcome.value = AfterRules(rules, last.text, Len(rules))
        /\ last.target_style \in {"taisho", "showa", "academic", "poetic"} =>
               last.result.outcome.value = last.text

\* "desu." in meiji: the first rule gives "dearimasu.", on which the second
\* rule (masu to masuru) then acts
C25_Witness ==
    /\ ServiceCall("transform_text")
    /\ last.target_style = "meiji"
    /\ OracleFailed
    /\ last.text = <<"de", "su", "maru">>
    /\ last.result.outcome.value = <<"de", "a", "ri", "ma", "su", "ru", "maru">>


\* C26: the properties are not synchronized.  Each thread that tested the
\* attribute while it was None goes on to call the loader, whatever the
\* other threads have done since: the number of loader calls made is the
\* number of threads that found None and are past their load, so when all
\* threads found None the loader is called once by each of them.
C26_FirstAccessIsUnsynchronized ==
    last.op = "concurrent access" =>
        /\ last.loads = Cardinality({t \in Threads :
                                        /\ last.threads[t].saw = "None"
                                        /\ last.threads[t].pc \notin {"test", "load"}})
        /\ ((\A t \in Threads : last.threads[t].pc = "done" /\ last.threads[t].saw = "None")
                => last.loads = NumThreads)

\* a duplicate load: two requests both found the attribute None, both
\* loaders returned, and the two requests were handed different objects
C26_Witness ==
    /\ last.op = "concurrent access"
    /\ last.resource = "model"
    /\ \A t \in Threads : last.threads[t].pc = "done" /\ last.threads[t].saw = "None"
    /\ last.loads >= 2
    /\ \E t, u \in Threads :
           /\ last.threads[t].out = Some(Return(1))
           /\ last.threads[u].out = Some(Return(2))


\* C27: whatever the oracle decodes, the text a generate_text call returns
\* when no primitive raised contains neither the end-of-sequence marker
\* "</s>" nor the unknown-token marker "<unk>".
C27_OutputHasNoMarkers ==
    (ServiceCall("generate_text") /\ ~OracleFailed) =>
        /\ ~Contains(last.result.outcome.value, EosMarker)
        /\ ~Contains(last.result.outcome.value, UnkMarker)


\* the loader of the resource raised in the step of the series
LoadRaised(resource) ==
    last.result.run.raised /\ Last(last.result.run.calls) = LoaderOf(resource)

\* loads of the resource that had raised before the step
RaisedBefore(resource) ==
    last.failed[resource] - (IF LoadRaised(resource) THEN 1 ELSE 0)

\* C28: a load that raises comes out of the property as the exception the
\* loader raised and leaves the resource unloaded; an access after a load
\* that raised calls the loader again; and once the loads return, a
\* transform call runs the whole oracle and leaves both resources loaded.
C28_FailedLoadIsRetried ==
    last.op = "series" =>
        \A resource \in {"tokenizer", "model"} :
            /\ LoadRaised(resource) =>
                   /\ ~inst[resource]
                   /\ last.access = resource =>
                          last.result.outcome = Raise(last.exc, LoaderOf(resource))
            /\ (RaisedBefore(resource) >= 1 /\ ~last.before[resource] /\ Reached(resource)) =>
                   Times(LoaderOf(resource), last.result.run.calls) = 1
            /\ (RaisedBefore(resource) >= 1 /\ last.access = "transform"
                    /\ last.fault = NoFault) =>
                   /\ ~last.result.run.raised
                   /\ last.result.outcome.kind = "return"
                   /\ Last(last.result.run.calls) = Last(StagesOf(inst.cap))
                   /\ inst.tokenizer /\ inst.model

\* the model of a style transfer service fails to load twice, first in a
\* read of the property and then in a transform call; the next transform
\* call loads it and runs the model
C28_Witness ==
    /\ last.op = "series"
    /\ inst.cap = "style_transfer"
    /\ last.access = "transform"
    /\ last.fault = NoFault
    /\ last.failed.model = 2
    /\ last.kinds = {"model", "transform"}
    /\ InSeq(LoadModel, last.result.run.calls)
    /\ last.result.fallback = None
    /\ inst.model


\* the generator of the request fell back to the input text
GenerationFailed == last.req.oracle # None /\ Get(last.req.oracle).raised

\* C29: when generation fails on POST /predictive_sentences/ the request
\* is not aborted: it goes on to Processing, the handler makes its one POST
\* with {text: the input text, response_type: "in_channel"}, and the answer
\* is decided by the outcome of the POST alone, 202 when the POST returned a
\* 2xx status and 502 when it raised or returned another status.
C29_DeliveryGoesOnAfterGenerationFailure ==
    (DirectRequest /\ GenerationFailed) =>
        /\ last.req.state \in {"Processing", "Delivered", "DeliveryFailed"}
        /\ last.req.generated = last.req.body.text
        /\ last.req.post # None =>
               /\ last.req.posted =
                      <<[url  |-> Get(last.req.body.response_url),
                         data |-> [text |-> Get(last.req.body.text),
                                   response_type |-> "in_channel"]]>>
               /\ Get(last.req.response).status =
                      (IF Is2xx(Get(last.req.post)) THEN 202 ELSE 502)

\* what holds of C29 in the code: the same, with the answer 202 whenever
\* raise_for_status let the status of the POST pass (a 2xx or, as in C16, a
\* 1xx or 3xx) and 502 otherwise.
C29_DeliveryGoesOnAsTheHandlerSeesIt ==
    (DirectRequest /\ GenerationFailed) =>
        /\ last.req.state \in {"Processing", "Delivered", "DeliveryFailed"}
        /\ last.req.generated = last.req.body.text
        /\ last.req.post # None =>
               /\ last.req.posted =
                      <<[url  |-> Get(last.req.body.response_url),
                         data |-> [text |-> Get(last.req.body.text),
                                   response_type |-> "in_channel"]]>>
               /\ Get(last.req.response).status =
                      (IF /\ Get(last.req.post).kind = "return"
                          /\ ~(400 <= Get(last.req.post).value /\ Get(last.req.post).value < 600)
                       THEN 202 ELSE 502)


\* a result of analyze_sentiment is well formed
WellFormedSentiment(v) ==
    /\ DOMAIN v = {"sentiment", "score", "details"}
    /\ v.sentiment \in {"negative", "neutral", "positive"}
    /\ Len(v.details) = 3
    /\ DictKeys(v.details) = {"negative", "neutral", "positive"}
    /\ v.score = DictGet(v.details, v.sentiment)
    /\ \A k \in 1..Len(v.details) : v.details[k][2] <= v.score

\* C30: every result of analyze_sentiment, from the oracle or from the
\* fallback, and so every 200 of POST /sentiment/, has a sentiment among
\* negative, neutral and positive, details with exactly these three keys,
\* and a score equal to the details entry of the sentiment, which no other
\* entry exceeds.
C30_SentimentResultIsWellFormed ==
    /\ ServiceCall("analyze_sentiment") =>
            /\ last.result.outcome.kind = "return"
            /\ WellFormedSentiment(last.result.outcome.value)
    /\ (ServiceCall("POST /sentiment/") /\ last.response.status = 200) =>
            WellFormedSentiment(last.response.body)

\* a result from the oracle in which negative and neutral tie for the
\* greatest score
C30_Witness ==
    /\ ServiceCall("analyze_sentiment")
    /\ ~OracleFailed
    /\ last.scores[1] = last.scores[2]
    /\ last.scores[3] < last.scores[1]
    /\ last.result.outcome.value.sentiment = "negative"

====
